---- MODULE Spec2Model ----
(***************************************************************************)
(* Status-polling and notification core of the model-online bot.          *)
(*                                                                         *)
(* The Deno KV store is modelled key by key.  Every `await` of the source  *)
(* is a scheduling point: one action is the code that runs between two     *)
(* awaits, on behalf of one thread of control (a command handler or one    *)
(* entity of a poll batch).                                                *)
(*                                                                         *)
(* kv.atomic().check(r) compares the versionstamp of the key with the one  *)
(* returned by the read r.  Every committed write gives the key a fresh    *)
(* versionstamp and an absent key has the versionstamp null, so the check  *)
(* passes exactly when the read saw the key absent and it is absent now,   *)
(* or the read saw a value and no write to the key was committed since.    *)
(* The thread keeps that as rdnull (read saw null) and stale (written      *)
(* since the read).                                                        *)
(***************************************************************************)
EXTENDS Integers, Sequences, FiniteSets, TLC

\* ------------------------------------------------------------------ bounds
MaxOps == 4
MaxCron == 3
MaxCalls == 8
RetryOps == 6
RaceOps == 2
CleanupOps == 4
HealOps == 4
FlickerCycles == 3
RegistryOps == 3
FlickerHorizon == 180000
GateSize == 2
FanoutSize == 13
StartTime == 600000
ChatIds == {1, 2}
ModelA == <<"a">>
ModelB == <<"b">>
\* kv.list returns keys in lexicographic key order
AllModels ==
  <<ModelA, ModelB, <<"c">>, <<"d">>, <<"e">>, <<"f">>, <<"g">>, <<"h">>, <<"i">>,
    <<"j">>, <<"k">>>>
Models == {AllModels[i] : i \in 1..Len(AllModels)}
RawNames == {<<"a">>, <<"<", "B", " ">>, <<" ", ">">>}
NoThread == <<"none", <<>>>>
CmdThreads == {<<"p1", <<>>>>, <<"p2", <<>>>>}
Cycles == {"c1", "c2"}
\* one thread of control per entity of a batch: batch.map(async (model, index) => ...)
ItemThreads == Cycles \X Models
Threads == CmdThreads \cup ItemThreads

\* ------------------------------------------------------- program constants
SUBSCRIBER_MAX_ATTEMPTS == 3
QUEUE_ADD_MAX_ATTEMPTS == 5
QUEUE_REMOVE_MAX_ATTEMPTS == 3
USER_ARRAY_MAX_ATTEMPTS == 3
LOCK_EXPIRE_MS == 55000
BATCH_SIZE == 10
MAX_CYCLE_ERRORS == 5
GRACE_PERIOD_MS == 120000
MAX_NOTIFICATION_ERRORS == 10
INITIAL_BACKOFF_MS == 1000
MAX_BACKOFF_MS == 30000
MIN_BACKOFF_MS == 1000
FETCH_TIMEOUT_MS == 10000
STAGGER_MS == 100
STATE_EXPIRE_MS == 86400000
CRON_PERIOD_MS == 60000
DEDUP_WINDOW_MS == 300000
NOTIFICATION_EXPIRE_MS == 600000
CACHE_TTL_MS == 30000

VARIABLES
  users,              \* ["users", chatId] keys present
  subscriptions,      \* ["subscriptions", chatId, modelName] keys present
  model_subscribers,  \* ["model_subscribers", modelName] -> [has, val]
  models_queue,       \* ["models_queue"] -> [has, val]
  user_ids_array,     \* ["user_ids_array"] -> [has, val]
  statuses,           \* ["statuses", modelName] -> [has, val]
  user_states,        \* ["user_states", chatId] -> expires
  recent_notifications, \* ["recent_notifications", chatId, modelName, type] -> time
  cron_lock,          \* ["cron_lock"] -> [has, exp, owner]
  statusCache,        \* ModelStatusCache.cache: modelName -> [has, val, timestamp]
  rateLimiter,        \* the APIRateLimiter instance: [lastCall, backoffMs] and its history
  now,                \* Date.now()
  remote,             \* what the status source would answer for each entity
  pc,                 \* position of every live thread
  loc,                \* repository locals of every live thread
  it,                 \* poll locals of every live batch entry
  cyc,                \* the invocations of the poll cron handler
  lastDispatch,       \* history: time of the last accepted send per notification key
  opsLeft,            \* command operations still to be issued
  cronLeft            \* cron invocations still to be made

kvVars == <<users, subscriptions, model_subscribers, models_queue, user_ids_array,
            statuses, user_states, recent_notifications, cron_lock>>
memVars == <<statusCache, rateLimiter>>
envVars == <<now, remote>>
thrVars == <<pc, loc>>
pollVars == <<it, cyc, lastDispatch, cronLeft>>
vars == <<kvVars, memVars, envVars, thrVars, pollVars, opsLeft>>

\* ----------------------------------------------------------------- helpers
Absent == [has |-> FALSE, val |-> <<>>]
Present(v) == [has |-> TRUE, val |-> v]
NoLock == [has |-> FALSE, exp |-> 0, owner |-> "none"]
NoCache == [has |-> FALSE, val |-> <<>>, timestamp |-> 0]

Includes(s, x) == \E i \in 1..Len(s) : s[i] = x
Filter(s, x) == SelectSeq(s, LAMBDA y : y # x)
NoDup(s) == \A i, j \in 1..Len(s) : i # j => s[i] # s[j]
Elems(s) == {s[i] : i \in 1..Len(s)}
WithoutKey(f, k) == [x \in DOMAIN f \ {k} |-> f[x]]
PositionIn(queue, m) == CHOOSE k \in 1..Len(queue) : queue[k] = m
Min(x, y) == IF x < y THEN x ELSE y
Max(x, y) == IF x > y THEN x ELSE y

NoKey == <<"none", <<>>>>
QueueKey == <<"models_queue", <<>>>>
UserArrayKey == <<"user_ids_array", <<>>>>
SubscribersKey(m) == <<"model_subscribers", m>>

Loc0 ==
  [chatId |-> 0, model |-> <<>>, attempts |-> 0, rd |-> <<>>, rk |-> NoKey,
   rdnull |-> FALSE, stale |-> FALSE, userSubscriptions |-> <<>>, todo |-> <<>>,
   ret |-> "top", rret |-> "top",
   now |-> 0,
   \* history: the raw name the handler was last called with
   rawName |-> <<>>]

\* a committed write to key k gives it a new versionstamp: every read of k
\* that is still outstanding no longer matches
Touch(L, k) == [u \in DOMAIN L |-> IF L[u].rk = k THEN [L[u] EXCEPT !.stale = TRUE] ELSE L[u]]

\* the read r = kv.get(k) of thread-local record l
ReadOf(l, k, entry) ==
  [l EXCEPT !.rd = entry.val, !.rk = k, !.rdnull = ~entry.has, !.stale = FALSE]
\* kv.atomic().check(r): versionstamp of the key now equals the one read
CheckPasses(l, entry) == IF l.rdnull THEN ~entry.has ELSE ~l.stale
Forget(l) == [l EXCEPT !.rd = <<>>, !.rk = NoKey, !.rdnull = FALSE, !.stale = FALSE]

\* utils.ts sanitizeModelName: name.replace(/[<>]/g, "").trim().toLowerCase()
IsSpace(c) == c = " "
RECURSIVE TrimStart(_)
TrimStart(s) == IF s # <<>> /\ IsSpace(Head(s)) THEN TrimStart(Tail(s)) ELSE s
RECURSIVE TrimEnd(_)
TrimEnd(s) ==
  IF s # <<>> /\ IsSpace(s[Len(s)]) THEN TrimEnd(SubSeq(s, 1, Len(s) - 1)) ELSE s
ToLowerChar(c) == CASE c = "A" -> "a" [] c = "B" -> "b" [] c = "C" -> "c" [] OTHER -> c
ToLowerCase(s) == [i \in 1..Len(s) |-> ToLowerChar(s[i])]
sanitizeModelName_KeepsBrackets(name) == ToLowerCase(TrimEnd(TrimStart(name)))
sanitizeModelName(name) ==
  IF name = <<>> THEN <<>>
  ELSE ToLowerCase(TrimEnd(TrimStart(SelectSeq(name, LAMBDA c : c \notin {"<", ">"}))))

\* getUserSubscriptions: kv.list({prefix: ["subscriptions", chatId]})
getUserSubscriptions(chatId) ==
  SelectSeq(AllModels, LAMBDA m : <<chatId, m>> \in subscriptions)
\* getModelSubscribers: (kv.get(["model_subscribers", m])).value || []
getModelSubscribers(m) == model_subscribers[m].val
\* getModelQueue: (kv.get(["models_queue"])).value || []
getModelQueue == models_queue.val
\* getAllUserIds: (kv.get(["user_ids_array"])).value || []
getAllUserIds == user_ids_array.val

\* one thread moves to label with locals l; L is loc after the step's writes
Goto(t, L, label, l) ==
  /\ pc' = [pc EXCEPT ![t] = label]
  /\ loc' = [L EXCEPT ![t] = l]

\* --------------------------------------------------- returns of procedures
\* removeUserSubscription returns: to the command handler, or to the loop of
\* removeUserAndAllSubscriptions over userSubscriptions
RusReturn(t, L, l) ==
  IF l.ret = "top" THEN Goto(t, L, "idle", Loc0)
  ELSE IF l.todo # <<>>
       THEN Goto(t, L, "rus_sub",
                 [Forget(l) EXCEPT !.model = sanitizeModelName(Head(l.todo)),
                                   !.todo = Tail(l.todo),
                                   !.attempts = 0])
       ELSE Goto(t, L, "ras_user", [Forget(l) EXCEPT !.model = <<>>, !.attempts = 0])

\* ------------------------------------------------------ addUserSubscription
\* a command handler calls addUserSubscription(chatId, rawName)
CallAddUserSubscription(t, chatId, rawName) ==
  /\ pc[t] = "idle" /\ opsLeft > 0
  /\ opsLeft' = opsLeft - 1
  /\ LET modelName == sanitizeModelName(rawName) IN
       IF modelName = <<>> THEN Goto(t, loc, "idle", [Loc0 EXCEPT !.rawName = rawName])
       ELSE Goto(t, loc, "aus_user", [Loc0 EXCEPT !.chatId = chatId, !.model = modelName,
                                                  !.rawName = rawName])
  /\ UNCHANGED <<kvVars, memVars, envVars, pollVars>>

\* await kv.set(["users", chatId], true)
AusSetUser(t) ==
  /\ pc[t] = "aus_user"
  /\ users' = users \cup {loc[t].chatId}
  /\ Goto(t, loc, "aus_sub", loc[t])
  /\ UNCHANGED <<subscriptions, model_subscribers, models_queue, user_ids_array,
                 statuses, user_states, recent_notifications, cron_lock,
                 memVars, envVars, pollVars, opsLeft>>

\* await kv.atomic().set(["subscriptions", chatId, modelName], true).commit()
AusSetSubscription(t) ==
  /\ pc[t] = "aus_sub"
  /\ subscriptions' = subscriptions \cup {<<loc[t].chatId, loc[t].model>>}
  /\ Goto(t, loc, "asm_get", [loc[t] EXCEPT !.attempts = 0])
  /\ UNCHANGED <<users, model_subscribers, models_queue, user_ids_array,
                 statuses, user_states, recent_notifications, cron_lock,
                 memVars, envVars, pollVars, opsLeft>>

\* addSubscriberToModel, loop head: kv.get(["model_subscribers", modelName])
AsmGet_NoIncludes(t) ==
  /\ pc[t] = "asm_get"
  /\ Goto(t, loc, "asm_commit",
          ReadOf(loc[t], SubscribersKey(loc[t].model), model_subscribers[loc[t].model]))
  /\ UNCHANGED <<kvVars, memVars, envVars, pollVars, opsLeft>>
AsmGet(t) ==
  /\ pc[t] = "asm_get"
  /\ LET e == model_subscribers[loc[t].model] IN
       IF Includes(e.val, loc[t].chatId)
       THEN Goto(t, loc, "aus_qget", [Forget(loc[t]) EXCEPT !.attempts = 0])
       ELSE Goto(t, loc, "asm_commit", ReadOf(loc[t], SubscribersKey(loc[t].model), e))
  /\ UNCHANGED <<kvVars, memVars, envVars, pollVars, opsLeft>>

\* addSubscriberToModel: check(subscribersResult).set([...subscribers, chatId])
AsmCommit(t) ==
  /\ pc[t] = "asm_commit"
  /\ LET l == loc[t]
         m == l.model
         ok == CheckPasses(l, model_subscribers[m])
         attempts == l.attempts + 1
     IN IF ok
        THEN /\ model_subscribers' =
                  [model_subscribers EXCEPT ![m] = Present(Append(l.rd, l.chatId))]
             /\ Goto(t, Touch(loc, SubscribersKey(m)), "aus_qget",
                     [Forget(l) EXCEPT !.attempts = 0])
        ELSE /\ UNCHANGED model_subscribers
             /\ IF attempts < SUBSCRIBER_MAX_ATTEMPTS
                THEN Goto(t, loc, "asm_get", [Forget(l) EXCEPT !.attempts = attempts])
                ELSE Goto(t, loc, "aus_qget", [Forget(l) EXCEPT !.attempts = 0])
  /\ UNCHANGED <<users, subscriptions, models_queue, user_ids_array, statuses,
                 user_states, recent_notifications, cron_lock, memVars, envVars,
                 pollVars, opsLeft>>

\* addUserSubscription, queue loop head: kv.get(["models_queue"])
AusQueueGet_NoIncludes(t) ==
  /\ pc[t] = "aus_qget"
  /\ Goto(t, loc, "aus_qcommit", ReadOf(loc[t], QueueKey, models_queue))
  /\ UNCHANGED <<kvVars, memVars, envVars, pollVars, opsLeft>>
AusQueueGet(t) ==
  /\ pc[t] = "aus_qget"
  /\ IF Includes(models_queue.val, loc[t].model)
     THEN Goto(t, loc, "idle", Loc0)
     ELSE Goto(t, loc, "aus_qcommit", ReadOf(loc[t], QueueKey, models_queue))
  /\ UNCHANGED <<kvVars, memVars, envVars, pollVars, opsLeft>>

\* while (!queueSuccess && attempts < maxAttempts), after a failed commit
QueueRetryLeft_Always(attempts) == TRUE
QueueRetryLeft(attempts) == attempts < QUEUE_ADD_MAX_ATTEMPTS

\* addUserSubscription: check(queueResult).set(queueKey, [...queue, modelName])
AusQueueCommit(t) ==
  /\ pc[t] = "aus_qcommit"
  /\ LET l == loc[t]
         ok == CheckPasses(l, models_queue)
         attempts == l.attempts + 1
     IN IF ok
        THEN /\ models_queue' = Present(Append(l.rd, l.model))
             /\ Goto(t, Touch(loc, QueueKey), "idle", Loc0)
        ELSE /\ UNCHANGED models_queue
             /\ IF QueueRetryLeft(attempts)
                THEN Goto(t, loc, "aus_qget", [Forget(l) EXCEPT !.attempts = attempts])
                ELSE Goto(t, loc, "idle", Loc0)
  /\ UNCHANGED <<users, subscriptions, model_subscribers, user_ids_array, statuses,
                 user_states, recent_notifications, cron_lock, memVars, envVars,
                 pollVars, opsLeft>>

\* --------------------------------------------------- removeUserSubscription
CallRemoveUserSubscription(t, chatId, rawName) ==
  /\ pc[t] = "idle" /\ opsLeft > 0
  /\ opsLeft' = opsLeft - 1
  /\ LET modelName == sanitizeModelName(rawName) IN
       IF modelName = <<>> THEN Goto(t, loc, "idle", [Loc0 EXCEPT !.rawName = rawName])
       ELSE Goto(t, loc, "rus_sub", [Loc0 EXCEPT !.chatId = chatId, !.model = modelName,
                                                 !.rawName = rawName])
  /\ UNCHANGED <<kvVars, memVars, envVars, pollVars>>

\* await kv.atomic().delete(["subscriptions", chatId, modelName]).commit()
RusDeleteSubscription(t) ==
  /\ pc[t] = "rus_sub"
  /\ subscriptions' = subscriptions \ {<<loc[t].chatId, loc[t].model>>}
  /\ Goto(t, loc, "rsm_get", [loc[t] EXCEPT !.attempts = 0])
  /\ UNCHANGED <<users, model_subscribers, models_queue, user_ids_array,
                 statuses, user_states, recent_notifications, cron_lock,
                 memVars, envVars, pollVars, opsLeft>>

\* removeSubscriberFromModel, loop head: kv.get(["model_subscribers", modelName])
RsmGet(t) ==
  /\ pc[t] = "rsm_get"
  /\ LET e == model_subscribers[loc[t].model] IN
       IF Includes(e.val, loc[t].chatId)
       THEN Goto(t, loc, "rsm_commit", ReadOf(loc[t], SubscribersKey(loc[t].model), e))
       ELSE RusReturn(t, loc, loc[t])
  /\ UNCHANGED <<kvVars, memVars, envVars, pollVars, opsLeft>>

\* removeSubscriberFromModel: check(subscribersResult).set(filteredSubscribers);
\* on success with no subscriber left it calls removeModelFromQueue
RsmCommit(t) ==
  /\ pc[t] = "rsm_commit"
  /\ LET l == loc[t]
         m == l.model
         ok == CheckPasses(l, model_subscribers[m])
         filteredSubscribers == Filter(l.rd, l.chatId)
         attempts == l.attempts + 1
     IN IF ok
        THEN /\ model_subscribers' =
                  [model_subscribers EXCEPT ![m] = Present(filteredSubscribers)]
             /\ IF Len(filteredSubscribers) = 0
                THEN Goto(t, Touch(loc, SubscribersKey(m)), "rmq_get",
                          [Forget(l) EXCEPT !.attempts = 0])
                ELSE RusReturn(t, Touch(loc, SubscribersKey(m)), l)
        ELSE /\ UNCHANGED model_subscribers
             /\ IF attempts < SUBSCRIBER_MAX_ATTEMPTS
                THEN Goto(t, loc, "rsm_get", [Forget(l) EXCEPT !.attempts = attempts])
                ELSE RusReturn(t, loc, l)
  /\ UNCHANGED <<users, subscriptions, models_queue, user_ids_array, statuses,
                 user_states, recent_notifications, cron_lock, memVars, envVars,
                 pollVars, opsLeft>>

\* removeModelFromQueue, loop head: kv.get(["models_queue"])
RmqGet(t) ==
  /\ pc[t] = "rmq_get"
  /\ IF Includes(models_queue.val, loc[t].model)
     THEN Goto(t, loc, "rmq_commit", ReadOf(loc[t], QueueKey, models_queue))
     ELSE RusReturn(t, loc, loc[t])
  /\ UNCHANGED <<kvVars, memVars, envVars, pollVars, opsLeft>>

\* removeModelFromQueue: check(queueResult).set(["models_queue"], filteredQueue)
\* .delete(["statuses", m]).delete(["model_subscribers", m]); statusCache.delete(m)
RmqCommit(t) ==
  /\ pc[t] = "rmq_commit"
  /\ LET l == loc[t]
         m == l.model
         ok == CheckPasses(l, models_queue)
         attempts == l.attempts + 1
     IN IF ok
        THEN /\ models_queue' = Present(Filter(l.rd, m))
             /\ statuses' = [statuses EXCEPT ![m] = Absent]
             /\ model_subscribers' = [model_subscribers EXCEPT ![m] = Absent]
             /\ statusCache' = [statusCache EXCEPT ![m] = NoCache]
             /\ RusReturn(t, Touch(Touch(loc, QueueKey), SubscribersKey(m)), l)
        ELSE /\ UNCHANGED <<models_queue, statuses, model_subscribers, statusCache>>
             /\ IF attempts < QUEUE_REMOVE_MAX_ATTEMPTS
                THEN Goto(t, loc, "rmq_get", [Forget(l) EXCEPT !.attempts = attempts])
                ELSE RusReturn(t, loc, l)
  /\ UNCHANGED <<users, subscriptions, user_ids_array, user_states,
                 recent_notifications, cron_lock, rateLimiter, envVars, pollVars, opsLeft>>

\* ------------------------------------------------------------------ addUser
CallAddUser(t, chatId) ==
  /\ pc[t] = "idle" /\ opsLeft > 0
  /\ opsLeft' = opsLeft - 1
  /\ Goto(t, loc, "au_get", [Loc0 EXCEPT !.chatId = chatId])
  /\ UNCHANGED <<kvVars, memVars, envVars, pollVars>>

\* const userExists = await kv.get(["users", chatId]); if (userExists.value) return
AuGet(t) ==
  /\ pc[t] = "au_get"
  /\ IF loc[t].chatId \in users
     THEN Goto(t, loc, "idle", Loc0)
     ELSE Goto(t, loc, "au_set", loc[t])
  /\ UNCHANGED <<kvVars, memVars, envVars, pollVars, opsLeft>>

\* await kv.set(["users", chatId], true)
AuSet(t) ==
  /\ pc[t] = "au_set"
  /\ users' = users \cup {loc[t].chatId}
  /\ Goto(t, loc, "aua_get", [loc[t] EXCEPT !.attempts = 0])
  /\ UNCHANGED <<subscriptions, model_subscribers, models_queue, user_ids_array,
                 statuses, user_states, recent_notifications, cron_lock,
                 memVars, envVars, pollVars, opsLeft>>

\* addUserToArray, loop head: kv.get(["user_ids_array"])
AuaGet(t) ==
  /\ pc[t] = "aua_get"
  /\ IF Includes(user_ids_array.val, loc[t].chatId)
     THEN Goto(t, loc, "idle", Loc0)
     ELSE Goto(t, loc, "aua_commit", ReadOf(loc[t], UserArrayKey, user_ids_array))
  /\ UNCHANGED <<kvVars, memVars, envVars, pollVars, opsLeft>>

\* addUserToArray: check(userArrayResult).set(["user_ids_array"], [...userArray, chatId])
AuaCommit(t) ==
  /\ pc[t] = "aua_commit"
  /\ LET l == loc[t]
         ok == CheckPasses(l, user_ids_array)
         attempts == l.attempts + 1
     IN IF ok
        THEN /\ user_ids_array' = Present(Append(l.rd, l.chatId))
             /\ Goto(t, Touch(loc, UserArrayKey), "idle", Loc0)
        ELSE /\ UNCHANGED user_ids_array
             /\ IF attempts < USER_ARRAY_MAX_ATTEMPTS
                THEN Goto(t, loc, "aua_get", [Forget(l) EXCEPT !.attempts = attempts])
                ELSE Goto(t, loc, "idle", Loc0)
  /\ UNCHANGED <<users, subscriptions, model_subscribers, models_queue, statuses,
                 user_states, recent_notifications, cron_lock, memVars, envVars,
                 pollVars, opsLeft>>

\* -------------------------------------------- removeUserAndAllSubscriptions
\* entry of removeUserAndAllSubscriptions(chatId); rret names the caller
EnterRemoveUserAndAllSubscriptions(l, chatId, rret) ==
  [Loc0 EXCEPT !.chatId = chatId, !.ret = "ras", !.rret = rret]

CallRemoveUserAndAllSubscriptions(t, chatId) ==
  /\ pc[t] = "idle" /\ opsLeft > 0
  /\ opsLeft' = opsLeft - 1
  /\ Goto(t, loc, "ras_list", EnterRemoveUserAndAllSubscriptions(loc[t], chatId, "top"))
  /\ UNCHANGED <<kvVars, memVars, envVars, pollVars>>

\* const userSubscriptions = await getUserSubscriptions(chatId), then the loop
\* for (const modelName of userSubscriptions) await removeUserSubscription(...)
RasList(t) ==
  /\ pc[t] = "ras_list"
  /\ LET userSubscriptions == getUserSubscriptions(loc[t].chatId) IN
       RusReturn(t, loc, [loc[t] EXCEPT !.userSubscriptions = userSubscriptions,
                                        !.todo = userSubscriptions])
  /\ UNCHANGED <<kvVars, memVars, envVars, pollVars, opsLeft>>

\* await kv.delete(["users", chatId])
RasDeleteUser(t) ==
  /\ pc[t] = "ras_user"
  /\ users' = users \ {loc[t].chatId}
  /\ Goto(t, loc, "rua_get", [loc[t] EXCEPT !.attempts = 0])
  /\ UNCHANGED <<subscriptions, model_subscribers, models_queue, user_ids_array,
                 statuses, user_states, recent_notifications, cron_lock,
                 memVars, envVars, pollVars, opsLeft>>

\* removeUserFromArray, loop head: kv.get(["user_ids_array"])
RuaGet(t) ==
  /\ pc[t] = "rua_get"
  /\ IF Includes(user_ids_array.val, loc[t].chatId)
     THEN Goto(t, loc, "rua_commit", ReadOf(loc[t], UserArrayKey, user_ids_array))
     ELSE Goto(t, loc, "ras_state", Forget(loc[t]))
  /\ UNCHANGED <<kvVars, memVars, envVars, pollVars, opsLeft>>

\* removeUserFromArray: check(userArrayResult).set(["user_ids_array"], filteredArray)
RuaCommit(t) ==
  /\ pc[t] = "rua_commit"
  /\ LET l == loc[t]
         ok == CheckPasses(l, user_ids_array)
         attempts == l.attempts + 1
     IN IF ok
        THEN /\ user_ids_array' = Present(Filter(l.rd, l.chatId))
             /\ Goto(t, Touch(loc, UserArrayKey), "ras_state", Forget(l))
        ELSE /\ UNCHANGED user_ids_array
             /\ IF attempts < USER_ARRAY_MAX_ATTEMPTS
                THEN Goto(t, loc, "rua_get", [Forget(l) EXCEPT !.attempts = attempts])
                ELSE Goto(t, loc, "ras_state", Forget(l))
  /\ UNCHANGED <<users, subscriptions, model_subscribers, models_queue, statuses,
                 user_states, recent_notifications, cron_lock, memVars, envVars,
                 pollVars, opsLeft>>

\* ------------------------------------------------------------ poll: data
ItemsOf(c) == {t \in DOMAIN it : t[1] = c}

Cyc0 ==
  [pc |-> "idle", startTime |-> 0, queue |-> <<>>, batchIndex |-> 0,
   processedCount |-> 0, errorCount |-> 0,
   \* history of the invocation
   granted |-> FALSE, grantedAt |-> 0, released |-> FALSE, acted |-> FALSE,
   exit |-> "none", fetched |-> [m \in Models |-> 0]]

It0 ==
  [currentStatus |-> "none", stored |-> Absent, subscribers |-> <<>>, now |-> 0,
   toWrite |-> Absent, userIds |-> <<>>, ntype |-> "none", after |-> Absent,
   notificationErrors |-> 0,
   \* the timer the entry sleeps on, and the time its fetch was issued
   wake |-> 0, callStart |-> 0,
   \* history of the entry
   response |-> "none",
   prev |-> "none", tried |-> <<>>, sentTo |-> <<>>, skipped |-> <<>>,
   wrote |-> <<>>, thrown |-> FALSE, durationText |-> ""]

ModelStatus(status, online_since, notified_users, last_notification_time) ==
  [status |-> status, online_since |-> online_since,
   notified_users |-> notified_users, last_notification_time |-> last_notification_time]

NotificationKey(chatId, modelName, type) == <<chatId, modelName, type>>

\* isRecentNotification: record present and Date.now() - value < DEDUP_WINDOW_MS
isRecentNotification_AnyRecord(chatId, modelName, type) ==
  LET key == NotificationKey(chatId, modelName, type) IN
    key \in DOMAIN recent_notifications /\ recent_notifications[key] # 0
isRecentNotification(chatId, modelName, type) ==
  LET key == NotificationKey(chatId, modelName, type) IN
    /\ key \in DOMAIN recent_notifications
    /\ recent_notifications[key] # 0
    /\ now - recent_notifications[key] < DEDUP_WINDOW_MS

\* utils.ts isUserBlocked(error): the transport error says the recipient
\* blocked the bot or is unreachable for good
isUserBlocked(error) == error = "blocked"

\* ModelStatusCache.get: the entry unless now - entry.timestamp > CACHE_TTL_MS
CacheFresh(entry) == entry.has /\ ~(now - entry.timestamp > CACHE_TTL_MS)

NoPlan == [first |-> Absent, notify |-> <<>>, ntype |-> "none", after |-> Absent]

\* processStatusChange: what it writes first, whom it notifies with which
\* type, and what it writes after the notifications
processStatusChange_NotifyAtOnce(currentStatus, prevStatus, storedStatus, subscribers, t) ==
  IF currentStatus = "online"
  THEN [first |-> Present(ModelStatus("online", t, subscribers, t)),
        notify |-> subscribers, ntype |-> "online", after |-> Absent]
  ELSE [first |-> Present(ModelStatus("offline", 0, <<>>, 0)),
        notify |-> subscribers, ntype |-> "offline", after |-> Absent]
processStatusChange_NotifyFirst(currentStatus, prevStatus, storedStatus, subscribers, t) ==
  IF currentStatus = "online"
  THEN [NoPlan EXCEPT !.first = Present(ModelStatus("online", t, <<>>, 0))]
  ELSE [first |-> Absent, notify |-> subscribers, ntype |-> "offline",
        after |-> Present(ModelStatus("offline", 0, <<>>, 0))]
processStatusChange_KeepsSince(currentStatus, prevStatus, storedStatus, subscribers, t) ==
  IF currentStatus = "online"
  THEN [NoPlan EXCEPT !.first = Present(ModelStatus("online", t, <<>>, 0))]
  ELSE [first |-> IF storedStatus.has
                  THEN Present([storedStatus.val EXCEPT !.status = "offline"])
                  ELSE Present(ModelStatus("offline", 0, <<>>, 0)),
        notify |-> subscribers, ntype |-> "offline", after |-> Absent]
processStatusChange(currentStatus, prevStatus, storedStatus, subscribers, t) ==
  IF currentStatus = "online"
  THEN IF prevStatus = "offline"
       THEN [NoPlan EXCEPT !.first = Present(ModelStatus("online", t, <<>>, 0))]
       ELSE IF prevStatus = "online"
       THEN LET since == IF storedStatus.has /\ storedStatus.val.online_since # 0
                         THEN storedStatus.val.online_since ELSE t
                timeOnline == t - since
                notifiedUsers == IF storedStatus.has
                                 THEN storedStatus.val.notified_users ELSE <<>>
                newSubscribers ==
                  SelectSeq(subscribers, LAMBDA id : ~Includes(notifiedUsers, id))
            IN IF timeOnline < GRACE_PERIOD_MS \/ Len(newSubscribers) = 0
               THEN NoPlan
               ELSE [first |-> Absent, notify |-> newSubscribers, ntype |-> "online",
                     after |-> Present([storedStatus.val EXCEPT
                                          !.notified_users = subscribers,
                                          !.last_notification_time = t])]
       ELSE NoPlan
  ELSE [first |-> Present(ModelStatus("offline", 0, <<>>, 0)),
        notify |-> subscribers, ntype |-> "offline", after |-> Absent]

\* formatDuration: whole minutes, hours and days of ms, rendered as text
formatDuration_KeepsZeroParts(ms) ==
  LET minutes == ms \div (1000 * 60)
      hours == minutes \div 60
      days == hours \div 24
  IN IF ms < 0 THEN "0 minutes"
     ELSE IF days > 0 THEN ToString(days) \o "d " \o ToString(hours % 24) \o "hrs"
     ELSE IF hours > 0 THEN ToString(hours) \o "hr " \o ToString(minutes % 60) \o "m"
     ELSE ToString(minutes) \o " minutes"
formatDuration(ms) ==
  IF ms < 0 THEN "0 minutes"
  ELSE LET minutes == ms \div (1000 * 60)
           hours == minutes \div 60
           days == hours \div 24
       IN IF days > 0
          THEN LET remainingHours == hours % 24 IN
                 IF remainingHours > 0
                 THEN ToString(days) \o "d " \o ToString(remainingHours) \o "hrs"
                 ELSE ToString(days) \o "d"
          ELSE IF hours > 0
          THEN LET remainingMinutes == minutes % 60 IN
                 IF remainingMinutes > 0
                 THEN ToString(hours) \o "hr " \o ToString(remainingMinutes) \o "m"
                 ELSE ToString(hours) \o "hr"
          ELSE ToString(minutes) \o " minutes"

\* processStatusChange, offline branch: durationText of the message
DurationText(currentStatus, storedStatus, t) ==
  IF currentStatus # "online" /\ storedStatus.has /\ storedStatus.val.online_since # 0
  THEN " (Online for " \o formatDuration(t - storedStatus.val.online_since) \o ")"
  ELSE ""

\* the cron handler compares the fetched status with the stored one and calls
\* processStatusChange only if (currentStatus !== prevStatus)
StatusChanged(currentStatus, prevStatus) == currentStatus # prevStatus

\* -------------------------------------------------- poll: one batch entry
\* the entry of thread t goes on with locals i: the pending status write,
\* the rest of the fan-out, the write after it, or the end of the entry
Proceed(t, L, i) ==
  IF i.toWrite.has
  THEN /\ Goto(t, L, "ums_set", L[t]) /\ it' = [it EXCEPT ![t] = i] /\ UNCHANGED cyc
  ELSE IF i.userIds # <<>>
  THEN /\ Goto(t, L, "sn_check", L[t]) /\ it' = [it EXCEPT ![t] = i] /\ UNCHANGED cyc
  ELSE IF i.after.has
  THEN /\ Goto(t, L, "ums_set", L[t])
       /\ it' = [it EXCEPT ![t] = [i EXCEPT !.toWrite = i.after, !.after = Absent]]
       /\ UNCHANGED cyc
  ELSE /\ Goto(t, L, "it_done", L[t])
       /\ it' = [it EXCEPT ![t] = i]
       /\ cyc' = [cyc EXCEPT ![t[1]].processedCount = @ + 1]

\* if (currentStatus === "unknown") { console.warn(...); return }
AfterFetch_NoSkip(currentStatus) == "it_stored"
AfterFetch(currentStatus) == IF currentStatus = "unknown" THEN "it_done" ELSE "it_stored"

\* const currentStatus = await fetchModelStatus(model), by its result alone:
\* the pacing of the call is in CwlEnter, CwlWake and FmsSettle
ItFetch(t) ==
  /\ t \in DOMAIN it /\ pc[t] = "it_fetch"
  /\ \E currentStatus \in {remote[t[2]], "unknown"} :
       /\ it' = [it EXCEPT ![t].currentStatus = currentStatus]
       /\ Goto(t, loc, AfterFetch(currentStatus), loc[t])
  /\ cyc' = [cyc EXCEPT ![t[1]].acted = TRUE, ![t[1]].fetched[t[2]] = @ + 1]
  /\ UNCHANGED <<kvVars, memVars, envVars, lastDispatch, cronLeft, opsLeft>>

\* ------------------------------------------ poll: fetch through the limiter
\* backoffMs is a JavaScript number: it is kept in units of 1/Scale ms, which
\* is exact as long as it has at most four decimals
Scale == 10000

\* const rateLimiter = new APIRateLimiter(): lastCall = 0, backoffMs = 1000
RateLimiter0 ==
  [lastCall |-> 0, backoffMs |-> INITIAL_BACKOFF_MS * Scale,
   \* history: calls that have settled, and those of them that failed
   settled |-> 0, failed |-> 0]

\* this.backoffMs = Math.max(this.minBackoff, this.backoffMs * 0.9)
OnSuccess(backoffMs) == Max(MIN_BACKOFF_MS * Scale, backoffMs - backoffMs \div 10)

\* this.backoffMs = Math.min(this.maxBackoff, this.backoffMs * 2)
OnFailure_NoCap(backoffMs) == backoffMs * 2
OnFailure(backoffMs) == Min(MAX_BACKOFF_MS * Scale, backoffMs * 2)

\* if (timeSinceLastCall < this.backoffMs)
MustWait(timeSinceLastCall, backoffMs) ==
  /\ timeSinceLastCall <= MAX_BACKOFF_MS
  /\ timeSinceLastCall * Scale < backoffMs

\* sleep(this.backoffMs - timeSinceLastCall): setTimeout takes whole milliseconds
SleepMs(timeSinceLastCall, backoffMs) == (backoffMs - timeSinceLastCall * Scale) \div Scale

\* what the remote call can come to: an HTTP status without a usable body, a
\* timeout of the abort signal, a transport failure, a 200 whose body is not
\* JSON, is the JSON null, or is an object with or without room_status
Responses ==
  {"404", "429", "500", "timeout", "network", "badjson", "null",
   "offline", "public", "missing"}

\* the function handed to callWithLimit: its value, or "throw"
Fn(response) ==
  IF response \in {"timeout", "network"} THEN "throw"   \* await fetch(...) rejects
  ELSE IF response = "404" THEN "offline"
  ELSE IF response = "429" THEN "throw"
  ELSE IF response = "500" THEN "unknown"                \* !res.ok
  ELSE IF response = "badjson" THEN "throw"              \* await res.json() rejects
  ELSE IF response = "null" THEN "throw"                 \* data.room_status of null
  ELSE IF response = "offline" THEN "offline" ELSE "online"

\* fetchModelStatus: the value of fn, or "unknown" from catch (error)
fetchModelStatus_Rethrows(response) == Fn(response)
fetchModelStatus(response) == IF Fn(response) = "throw" THEN "unknown" ELSE Fn(response)

\* callWithLimit after fn has settled at time t
Settled(limiter, threw, t) ==
  [limiter EXCEPT !.backoffMs = IF threw THEN OnFailure(@) ELSE OnSuccess(@),
                  !.lastCall = t,
                  !.settled = @ + 1,
                  !.failed = IF threw THEN @ + 1 ELSE @]

\* await sleep(index * 100) is over: fetchModelStatus calls callWithLimit, which
\* reads the clock and either sleeps or calls fn, which issues the request
CwlEnter(t) ==
  /\ t \in DOMAIN it /\ pc[t] = "it_fetch" /\ now >= it[t].wake
  /\ LET timeSinceLastCall == now - rateLimiter.lastCall IN
       IF MustWait(timeSinceLastCall, rateLimiter.backoffMs)
       THEN /\ Goto(t, loc, "cwl_sleep", loc[t])
            /\ it' = [it EXCEPT ![t].wake =
                                   now + SleepMs(timeSinceLastCall, rateLimiter.backoffMs)]
       ELSE /\ Goto(t, loc, "cwl_call", loc[t])
            /\ it' = [it EXCEPT ![t].callStart = now]
  /\ UNCHANGED <<kvVars, memVars, envVars, cyc, lastDispatch, cronLeft, opsLeft>>

\* the sleep of callWithLimit is over: const result = await fn()
CwlWake(t) ==
  /\ t \in DOMAIN it /\ pc[t] = "cwl_sleep" /\ now >= it[t].wake
  /\ Goto(t, loc, "cwl_call", loc[t])
  /\ it' = [it EXCEPT ![t].callStart = now]
  /\ UNCHANGED <<kvVars, memVars, envVars, cyc, lastDispatch, cronLeft, opsLeft>>

\* fn settles: callWithLimit adjusts backoffMs and sets lastCall, and
\* fetchModelStatus returns to the entry
FmsSettle(t, response) ==
  /\ t \in DOMAIN it /\ pc[t] = "cwl_call"
  /\ response = "timeout" => now >= it[t].callStart + FETCH_TIMEOUT_MS
  /\ LET currentStatus == fetchModelStatus(response) IN
       IF currentStatus = "throw"
       THEN /\ Goto(t, loc, "it_done", loc[t])
            /\ it' = [it EXCEPT ![t].response = response, ![t].thrown = TRUE]
            /\ cyc' = [cyc EXCEPT ![t[1]].acted = TRUE, ![t[1]].errorCount = @ + 1,
                                   ![t[1]].fetched[t[2]] = @ + 1]
       ELSE /\ Goto(t, loc, AfterFetch(currentStatus), loc[t])
            /\ it' = [it EXCEPT ![t].response = response,
                                ![t].currentStatus = currentStatus]
            /\ cyc' = [cyc EXCEPT ![t[1]].acted = TRUE, ![t[1]].fetched[t[2]] = @ + 1]
  /\ rateLimiter' = Settled(rateLimiter, Fn(response) = "throw", now)
  /\ UNCHANGED <<kvVars, statusCache, envVars, lastDispatch, cronLeft, opsLeft>>

\* if (currentStatus !== prevStatus) await processStatusChange(...), which
\* starts with await db.getModelSubscribers(model); else processedCount++
Decide(t, i) ==
  LET prevStatus == IF i.stored.has THEN i.stored.val.status ELSE "offline" IN
    IF StatusChanged(i.currentStatus, prevStatus)
    THEN /\ Goto(t, loc, "psc_subs", loc[t])
         /\ it' = [it EXCEPT ![t] = [i EXCEPT !.prev = prevStatus]]
         /\ UNCHANGED cyc
    ELSE Proceed(t, loc, [i EXCEPT !.prev = prevStatus])

\* getStoredModelStatus: statusCache.get(modelName), else kv.get(["statuses", m])
ItGetStored(t) ==
  /\ t \in DOMAIN it /\ pc[t] = "it_stored"
  /\ LET m == t[2]
         entry == statusCache[m]
     IN IF CacheFresh(entry)
        THEN /\ Decide(t, [it[t] EXCEPT !.stored = Present(entry.val)])
             /\ UNCHANGED statusCache
        ELSE /\ statusCache' = [statusCache EXCEPT ![m] = NoCache]
             /\ Goto(t, loc, "it_cacheset", loc[t])
             /\ it' = [it EXCEPT ![t].stored = statuses[m]]
             /\ UNCHANGED cyc
  /\ UNCHANGED <<kvVars, rateLimiter, envVars, lastDispatch, cronLeft, opsLeft>>

\* getStoredModelStatus: if (result.value) statusCache.set(modelName, result.value)
ItCacheSet(t) ==
  /\ t \in DOMAIN it /\ pc[t] = "it_cacheset"
  /\ statusCache' =
       IF it[t].stored.has
       THEN [statusCache EXCEPT
               ![t[2]] = [has |-> TRUE, val |-> it[t].stored.val, timestamp |-> now]]
       ELSE statusCache
  /\ Decide(t, it[t])
  /\ UNCHANGED <<kvVars, rateLimiter, envVars, lastDispatch, cronLeft, opsLeft>>

\* processStatusChange: const subscribers = await db.getModelSubscribers(model);
\* const now = Date.now(); then the branch on currentStatus / prevStatus
ItGetSubscribers(t) ==
  /\ t \in DOMAIN it /\ pc[t] = "psc_subs"
  /\ LET i == it[t]
         subscribers == getModelSubscribers(t[2])
         plan == processStatusChange(i.currentStatus, i.prev, i.stored, subscribers, now)
     IN Proceed(t, loc, [i EXCEPT !.subscribers = subscribers, !.now = now,
                                   !.durationText =
                                      DurationText(i.currentStatus, i.stored, now),
                                   !.toWrite = plan.first, !.userIds = plan.notify,
                                   !.ntype = plan.ntype, !.after = plan.after])
  /\ UNCHANGED <<kvVars, memVars, envVars, lastDispatch, cronLeft, opsLeft>>

\* updateModelStatus: await kv.set(["statuses", modelName], status)
UmsSet(t) ==
  /\ t \in DOMAIN it /\ pc[t] = "ums_set"
  /\ statuses' = [statuses EXCEPT ![t[2]] = it[t].toWrite]
  /\ it' = [it EXCEPT ![t].wrote = Append(@, it[t].toWrite.val)]
  /\ Goto(t, loc, "ums_cache", loc[t])
  /\ UNCHANGED <<users, subscriptions, model_subscribers, models_queue, user_ids_array,
                 user_states, recent_notifications, cron_lock, memVars, envVars,
                 cyc, lastDispatch, cronLeft, opsLeft>>

\* updateModelStatus: statusCache.set(modelName, status)
UmsCache(t) ==
  /\ t \in DOMAIN it /\ pc[t] = "ums_cache"
  /\ statusCache' =
       [statusCache EXCEPT
          ![t[2]] = [has |-> TRUE, val |-> it[t].toWrite.val, timestamp |-> now]]
  /\ Proceed(t, loc, [it[t] EXCEPT !.toWrite = Absent])
  /\ UNCHANGED <<kvVars, rateLimiter, envVars, lastDispatch, cronLeft, opsLeft>>

\* ---------------------------------------------- poll: sendNotifications
\* the catch block of sendNotifications is left: if (notificationErrors > 10)
\* break, else the loop goes to the next chatId
CatchContinue_Abort(t, L, i) == Proceed(t, L, [i EXCEPT !.userIds = <<>>])
CatchContinue(t, L, i) ==
  Proceed(t, L, [i EXCEPT !.userIds = IF i.notificationErrors > MAX_NOTIFICATION_ERRORS
                                       THEN <<>> ELSE Tail(i.userIds)])

\* const isRecent = await db.isRecentNotification(chatId, modelName, type);
\* if (isRecent) { skippedCount++; continue }
SnCheck(t) ==
  /\ t \in DOMAIN it /\ pc[t] = "sn_check"
  /\ LET i == it[t]
         chatId == Head(i.userIds)
     IN IF isRecentNotification(chatId, t[2], i.ntype)
        THEN Proceed(t, loc, [i EXCEPT !.userIds = Tail(i.userIds),
                                       !.skipped = Append(@, chatId)])
        ELSE /\ Goto(t, loc, "sn_send", loc[t]) /\ UNCHANGED <<it, cyc>>
  /\ UNCHANGED <<kvVars, memVars, envVars, lastDispatch, cronLeft, opsLeft>>

\* await bot.api.sendMessage(chatId, message, ...); on an error the catch block:
\* notificationErrors++, and removeUserAndAllSubscriptions for a blocked user
SnSend_AlwaysRecords(t, outcome) ==
  /\ t \in DOMAIN it /\ pc[t] = "sn_send"
  /\ LET chatId == Head(it[t].userIds) IN
       /\ lastDispatch' =
            IF outcome = "ok"
            THEN (NotificationKey(chatId, t[2], it[t].ntype) :> now) @@ lastDispatch
            ELSE lastDispatch
       /\ it' = [it EXCEPT ![t].tried = Append(@, chatId),
                           ![t].sentTo = IF outcome = "ok" THEN Append(@, chatId) ELSE @]
  /\ Goto(t, loc, "sn_record", loc[t])
  /\ UNCHANGED <<kvVars, memVars, envVars, cyc, cronLeft, opsLeft>>
SnSend(t, outcome) ==
  /\ t \in DOMAIN it /\ pc[t] = "sn_send"
  /\ LET i == it[t]
         chatId == Head(i.userIds)
         tried == [i EXCEPT !.tried = Append(@, chatId)]
         failed == [tried EXCEPT !.notificationErrors = @ + 1]
     IN IF outcome = "ok"
        THEN /\ lastDispatch' = (NotificationKey(chatId, t[2], i.ntype) :> now) @@ lastDispatch
             /\ it' = [it EXCEPT ![t] = [tried EXCEPT !.sentTo = Append(@, chatId)]]
             /\ Goto(t, loc, "sn_record", loc[t])
             /\ UNCHANGED cyc
        ELSE /\ UNCHANGED lastDispatch
             /\ IF isUserBlocked(outcome)
                THEN /\ Goto(t, loc, "ras_list",
                             EnterRemoveUserAndAllSubscriptions(loc[t], chatId, "send"))
                     /\ it' = [it EXCEPT ![t] = failed]
                     /\ UNCHANGED cyc
                ELSE CatchContinue(t, loc, failed)
  /\ UNCHANGED <<kvVars, memVars, envVars, cronLeft, opsLeft>>

\* recordNotification: await kv.set(key, Date.now(), { expireIn: 10 * 60 * 1000 })
SnRecord(t) ==
  /\ t \in DOMAIN it /\ pc[t] = "sn_record"
  /\ LET i == it[t]
         chatId == Head(i.userIds)
     IN /\ recent_notifications' =
             (NotificationKey(chatId, t[2], i.ntype) :> now) @@ recent_notifications
        /\ Proceed(t, loc, [i EXCEPT !.userIds = Tail(i.userIds)])
  /\ UNCHANGED <<users, subscriptions, model_subscribers, models_queue, user_ids_array,
                 statuses, user_states, cron_lock, memVars, envVars, lastDispatch,
                 cronLeft, opsLeft>>

\* removeUserAndAllSubscriptions returns: to the command handler, or into the
\* catch block of sendNotifications
RasReturn(t, L, l) ==
  IF l.rret = "top"
  THEN Goto(t, L, "idle", Loc0) /\ UNCHANGED <<it, cyc>>
  ELSE CatchContinue(t, [L EXCEPT ![t] = Loc0], it[t])

\* clearUserState: await kv.delete(["user_states", chatId])
RasClearState(t) ==
  /\ pc[t] = "ras_state"
  /\ user_states' = WithoutKey(user_states, loc[t].chatId)
  /\ RasReturn(t, loc, loc[t])
  /\ UNCHANGED <<users, subscriptions, model_subscribers, models_queue, user_ids_array,
                 statuses, recent_notifications, cron_lock, memVars, envVars,
                 lastDispatch, cronLeft, opsLeft>>

\* ------------------------------------------------- conversation states
\* setUserState(chatId, state): state.expires = Date.now() + 24 h; kv.set(key, state)
SetUserState(chatId) ==
  /\ opsLeft > 0
  /\ opsLeft' = opsLeft - 1
  /\ user_states' = (chatId :> now + STATE_EXPIRE_MS) @@ user_states
  /\ UNCHANGED <<users, subscriptions, model_subscribers, models_queue, user_ids_array,
                 statuses, recent_notifications, cron_lock, memVars, envVars,
                 thrVars, pollVars>>

\* Deno.cron("Cleanup Expired States") calls cleanupExpiredStates:
\* const now = Date.now(), and kv.list({ prefix: ["user_states"] }) is opened
CleanupThread == <<"cleanup", <<>>>>
CleanupInvoke ==
  /\ CleanupThread \notin DOMAIN pc /\ opsLeft > 0
  /\ opsLeft' = opsLeft - 1
  /\ pc' = (CleanupThread :> "cl_list") @@ pc
  /\ loc' = (CleanupThread :> [Loc0 EXCEPT !.now = now]) @@ loc
  /\ UNCHANGED <<kvVars, memVars, envVars, pollVars>>

\* the entries kv.list yields: key and value of every record, in key order
ListUserStates ==
  LET keys == SelectSeq([c \in 1..FanoutSize |-> c], LAMBDA c : c \in DOMAIN user_states)
  IN [k \in 1..Len(keys) |-> <<keys[k], user_states[keys[k]]>>]

\* the iterator reads the records
CleanupList ==
  /\ CleanupThread \in DOMAIN pc /\ pc[CleanupThread] = "cl_list"
  /\ Goto(CleanupThread, loc, "cl_entry", [loc[CleanupThread] EXCEPT !.todo = ListUserStates])
  /\ UNCHANGED <<kvVars, memVars, envVars, pollVars, opsLeft>>

\* if (entry.value && entry.value.expires < now) await kv.delete(entry.key)
IsExpired(expires, sweepTime) == expires < sweepTime

\* the loop body for the next entry, or the end of the sweep
CleanupEntry ==
  /\ CleanupThread \in DOMAIN pc /\ pc[CleanupThread] = "cl_entry"
  /\ LET l == loc[CleanupThread] IN
       IF l.todo = <<>>
       THEN /\ pc' = [t \in DOMAIN pc \ {CleanupThread} |-> pc[t]]
            /\ loc' = [t \in DOMAIN loc \ {CleanupThread} |-> loc[t]]
            /\ UNCHANGED user_states
       ELSE /\ user_states' = IF IsExpired(Head(l.todo)[2], l.now)
                              THEN WithoutKey(user_states, Head(l.todo)[1])
                              ELSE user_states
            /\ Goto(CleanupThread, loc, "cl_entry", [l EXCEPT !.todo = Tail(l.todo)])
  /\ UNCHANGED <<users, subscriptions, model_subscribers, models_queue, user_ids_array,
                 statuses, recent_notifications, cron_lock, memVars, envVars,
                 pollVars, opsLeft>>

\* a store call of the entry rejects: catch (error) { errorCount++ }
ItThrow(t) ==
  /\ t \in DOMAIN it /\ pc[t] \in {"it_stored", "psc_subs", "ums_set"}
  /\ Goto(t, loc, "it_done", loc[t])
  /\ it' = [it EXCEPT ![t].thrown = TRUE]
  /\ cyc' = [cyc EXCEPT ![t[1]].errorCount = @ + 1]
  /\ UNCHANGED <<kvVars, memVars, envVars, lastDispatch, cronLeft, opsLeft>>

\* ------------------------------------------------- poll: the cron handler
\* Deno.cron invokes the handler: const startTime = Date.now()
CronInvoke(c) ==
  /\ cyc[c].pc \in {"idle", "done"} /\ cronLeft > 0
  /\ cronLeft' = cronLeft - 1
  /\ cyc' = [cyc EXCEPT ![c] = [Cyc0 EXCEPT !.pc = "acquire", !.startTime = now]]
  /\ UNCHANGED <<kvVars, memVars, envVars, thrVars, it, lastDispatch, opsLeft>>

\* the outcome of atomic().check({key: lockKey, versionstamp: null}).set(...)
LockCheckPasses(lock) == ~lock.has

\* where the handler goes after the lock commit: if (!ok) return
AfterAcquire_NoReturn(ok) == "read_queue"
AfterAcquire(ok) == IF ok THEN "read_queue" ELSE "done"

\* .set(lockKey, { locked: true, startTime }, { expireIn: 55_000 }): the time
\* at which the store drops a key set at time t
LockExpiry_PastNextRun(t) == t + 2 * CRON_PERIOD_MS - LOCK_EXPIRE_MS
LockExpiry(t) == t + LOCK_EXPIRE_MS

CronAcquire(c) ==
  /\ cyc[c].pc = "acquire"
  /\ LET ok == LockCheckPasses(cron_lock) IN
       /\ cron_lock' = IF ok THEN [has |-> TRUE, exp |-> LockExpiry(now), owner |-> c]
                       ELSE cron_lock
       /\ cyc' = [cyc EXCEPT ![c].pc = AfterAcquire(ok), ![c].granted = ok,
                              ![c].grantedAt = IF ok THEN now ELSE 0]
  /\ UNCHANGED <<users, subscriptions, model_subscribers, models_queue, user_ids_array,
                 statuses, user_states, recent_notifications, memVars, envVars,
                 thrVars, it, lastDispatch, cronLeft, opsLeft>>

\* a return, a break out of the batch loop, its normal end or a caught throw
\* inside try { ... } finally { ... } runs the finally block before the handler ends
LeaveTry_ReturnSkipsFinally(exit) == IF exit = "empty" THEN "done" ELSE "release"
LeaveTry(exit) == "release"

\* batch = queue.slice(batchStart, batchEnd)
BatchOf_FromStart(queue, batchIndex) ==
  SubSeq(queue, 1, Min(batchIndex * BATCH_SIZE + BATCH_SIZE, Len(queue)))
BatchOf(queue, batchIndex) ==
  LET batchStart == batchIndex * BATCH_SIZE
      batchEnd == IF batchStart + BATCH_SIZE < Len(queue)
                  THEN batchStart + BATCH_SIZE ELSE Len(queue)
  IN SubSeq(queue, batchStart + 1, batchEnd)

\* Math.ceil(queue.length / BATCH_SIZE)
TotalBatches(queue) == (Len(queue) + BATCH_SIZE - 1) \div BATCH_SIZE

\* batch.map(async (model, index) => ...): one live entry per entity of the batch
StartBatch(c, batch) ==
  LET new == {<<c, batch[k]>> : k \in 1..Len(batch)} IN
    /\ pc' = [t \in new |-> "it_fetch"] @@ pc
    /\ loc' = [t \in new |-> Loc0] @@ loc
    /\ it' = [t \in new |->
                 [It0 EXCEPT !.wake = now + (PositionIn(batch, t[2]) - 1) * STAGGER_MS]] @@ it

\* const queue = await db.getModelQueue(); if (queue.length === 0) return
CronReadQueue(c) ==
  /\ cyc[c].pc = "read_queue"
  /\ LET queue == getModelQueue IN
       IF Len(queue) = 0
       THEN /\ cyc' = [cyc EXCEPT ![c].pc = LeaveTry("empty"), ![c].acted = TRUE,
                                  ![c].exit = "empty"]
            /\ UNCHANGED <<thrVars, it>>
       ELSE /\ cyc' = [cyc EXCEPT ![c].pc = "batch", ![c].acted = TRUE,
                                  ![c].queue = queue, ![c].batchIndex = 0]
            /\ StartBatch(c, BatchOf(queue, 0))
  /\ UNCHANGED <<kvVars, memVars, envVars, lastDispatch, cronLeft, opsLeft>>

\* db.getModelQueue() rejects: catch (error) of the handler, then finally
CronReadQueueThrows(c) ==
  /\ cyc[c].pc = "read_queue"
  /\ cyc' = [cyc EXCEPT ![c].pc = LeaveTry("exception"), ![c].acted = TRUE,
                         ![c].exit = "exception"]
  /\ UNCHANGED <<kvVars, memVars, envVars, thrVars, it, lastDispatch, cronLeft, opsLeft>>

\* if (errorCount > 5) { console.error("Too many errors, stopping cron job"); break }
BreakerTrips_Never(errorCount) == FALSE
BreakerTrips(errorCount) == errorCount > MAX_CYCLE_ERRORS

\* await Promise.all(batchPromises); if (errorCount > 5) break;
\* if (batchIndex < totalBatches - 1) await sleep(1000)
CronBatchDone(c) ==
  /\ cyc[c].pc = "batch"
  /\ \A t \in ItemsOf(c) : pc[t] = "it_done"
  /\ LET done == ItemsOf(c)
         keep == DOMAIN pc \ done
     IN /\ pc' = [t \in keep |-> pc[t]]
        /\ loc' = [t \in keep |-> loc[t]]
        /\ it' = [t \in DOMAIN it \ done |-> it[t]]
  /\ LET exit == IF BreakerTrips(cyc[c].errorCount) THEN "breaker"
                 ELSE IF cyc[c].batchIndex < TotalBatches(cyc[c].queue) - 1
                      THEN "none" ELSE "completed"
     IN cyc' = [cyc EXCEPT ![c].pc = IF exit = "none" THEN "pause" ELSE LeaveTry(exit),
                           ![c].exit = exit]
  /\ UNCHANGED <<kvVars, memVars, envVars, lastDispatch, cronLeft, opsLeft>>

\* the sleep between batches is over: the next iteration of the batch loop
CronNextBatch(c) ==
  /\ cyc[c].pc = "pause"
  /\ cyc' = [cyc EXCEPT ![c].pc = "batch", ![c].batchIndex = @ + 1]
  /\ StartBatch(c, BatchOf(cyc[c].queue, cyc[c].batchIndex + 1))
  /\ UNCHANGED <<kvVars, memVars, envVars, lastDispatch, cronLeft, opsLeft>>

\* finally { await db.kv.delete(lockKey) }
CronRelease(c) ==
  /\ cyc[c].pc = "release"
  /\ cron_lock' = NoLock
  /\ cyc' = [cyc EXCEPT ![c].pc = "done", ![c].released = TRUE]
  /\ UNCHANGED <<users, subscriptions, model_subscribers, models_queue, user_ids_array,
                 statuses, user_states, recent_notifications, memVars, envVars,
                 thrVars, it, lastDispatch, cronLeft, opsLeft>>

\* the process that runs a granted invocation ends, or stops for good, inside
\* the try block: the finally block is never reached and its entries are gone
CronCrash(c) ==
  /\ cyc[c].pc \in {"read_queue", "batch"}
  /\ cyc' = [cyc EXCEPT ![c].pc = "crashed"]
  /\ pc' = [t \in DOMAIN pc \ ItemsOf(c) |-> pc[t]]
  /\ loc' = [t \in DOMAIN loc \ ItemsOf(c) |-> loc[t]]
  /\ it' = [t \in DOMAIN it \ ItemsOf(c) |-> it[t]]
  /\ UNCHANGED <<kvVars, memVars, envVars, lastDispatch, cronLeft, opsLeft>>

\* ------------------------------------------------------- the environment
\* time passes; the store drops the keys whose expireIn has run out
Tick(d, limit) ==
  /\ now + d <= limit
  /\ now' = now + d
  /\ cron_lock' = IF cron_lock.has /\ now + d >= cron_lock.exp THEN NoLock ELSE cron_lock
  /\ recent_notifications' =
       [k \in {x \in DOMAIN recent_notifications :
                 now + d - recent_notifications[x] < NOTIFICATION_EXPIRE_MS}
          |-> recent_notifications[k]]
  /\ UNCHANGED <<users, subscriptions, model_subscribers, models_queue, user_ids_array,
                 statuses, user_states, memVars, remote, thrVars, pollVars, opsLeft>>

\* setTimeout: the timers of the entries that sleep (the stagger, the limiter)
\* and the abort timers of the requests in flight
SleepTimers == {it[t].wake : t \in {u \in DOMAIN it : pc[u] \in {"it_fetch", "cwl_sleep"}}}
AbortTimers ==
  {it[t].callStart + FETCH_TIMEOUT_MS : t \in {u \in DOMAIN it : pc[u] = "cwl_call"}}

\* time passes until the next of the timers is due
TimerTick(timers) ==
  /\ \E due \in timers :
       /\ due > now
       /\ \A other \in SleepTimers \cup AbortTimers : other > now => other >= due
       /\ Tick(due - now, due)

\* the entity goes online or offline at the status source
RemoteFlip(m) ==
  /\ remote' = [remote EXCEPT ![m] = IF @ = "online" THEN "offline" ELSE "online"]
  /\ UNCHANGED <<kvVars, memVars, now, thrVars, pollVars, opsLeft>>

\* ------------------------------------------------------------- the system
EmptyStore ==
  /\ users = {}
  /\ subscriptions = {}
  /\ model_subscribers = [m \in Models |-> Absent]
  /\ models_queue = Absent
  /\ user_ids_array = Absent
  /\ statuses = [m \in Models |-> Absent]
  /\ user_states = <<>>
  /\ recent_notifications = <<>>
  /\ cron_lock = NoLock

Started ==
  /\ statusCache = [m \in Models |-> NoCache]
  /\ rateLimiter = RateLimiter0
  /\ now = StartTime
  /\ pc = [t \in CmdThreads |-> "idle"]
  /\ loc = [t \in CmdThreads |-> Loc0]
  /\ it = <<>>
  /\ cyc = [c \in Cycles |-> Cyc0]
  /\ lastDispatch = <<>>

RepoStep(t) ==
  \/ AusSetUser(t) \/ AusSetSubscription(t) \/ AsmGet(t) \/ AsmCommit(t)
  \/ AusQueueGet(t) \/ AusQueueCommit(t)
  \/ RusDeleteSubscription(t) \/ RsmGet(t) \/ RsmCommit(t)
  \/ RmqGet(t) \/ RmqCommit(t)

RemoveStep(t) ==
  \/ RusDeleteSubscription(t) \/ RsmGet(t) \/ RsmCommit(t) \/ RmqGet(t) \/ RmqCommit(t)

PurgeStep(t) ==
  \/ RasList(t) \/ RasDeleteUser(t) \/ RuaGet(t) \/ RuaCommit(t) \/ RasClearState(t)

AddUserStep(t) == AuGet(t) \/ AuSet(t) \/ AuaGet(t) \/ AuaCommit(t)

\* the command handlers of the bot, running against the empty store
Init ==
  /\ EmptyStore /\ Started
  /\ remote = [m \in Models |-> "offline"]
  /\ opsLeft = MaxOps
  /\ cronLeft = 0

Command(t) ==
  \E chatId \in ChatIds, rawName \in RawNames :
     \/ CallAddUserSubscription(t, chatId, rawName)
     \/ CallRemoveUserSubscription(t, chatId, rawName)

Next == \E t \in CmdThreads : Command(t) \/ RepoStep(t)

Spec == Init /\ [][Next]_vars

\* one command handler at a time: the operations run one after another
P1 == <<"p1", <<>>>>
NextSeq == Command(P1) \/ RepoStep(P1)

SpecSeq == Init /\ [][NextSeq]_vars

\* handler p1 subscribes subscriber 1 to entity a while handler p2 keeps
\* subscribing subscriber 2 to entity b and unsubscribing it, which rewrites
\* the Queue each time; the event loop runs every continuation that is ready
P2 == <<"p2", <<>>>>
InitRetry ==
  /\ EmptyStore /\ Started
  /\ remote = [m \in Models |-> "offline"]
  /\ opsLeft = RetryOps
  /\ cronLeft = 0

NextRetry ==
  \/ CallAddUserSubscription(P1, 1, ModelA)
  \/ CallAddUserSubscription(P2, 2, ModelB)
  \/ CallRemoveUserSubscription(P2, 2, ModelB)
  \/ \E t \in CmdThreads : RepoStep(t)

SpecRetry == InitRetry /\ [][NextRetry]_vars /\ WF_vars(NextRetry)

\* ---------------------------------------------------------- the poll job
\* the store after the subscribers of subs have subscribed (and started the
\* bot) and unsubscribed until only the subscriptions of subs are left
StoreWith(subs) ==
  LET tracked == SelectSeq(AllModels, LAMBDA m : \E s \in subs : s[2] = m)
      chats == {s[1] : s \in subs}
      ChatSeq == [i \in 1..FanoutSize |-> i]
  IN /\ users = chats
     /\ subscriptions = subs
     /\ model_subscribers =
          [m \in Models |->
             IF Includes(tracked, m)
             THEN Present(SelectSeq(ChatSeq, LAMBDA c : <<c, m>> \in subs)) ELSE Absent]
     /\ models_queue = IF subs = {} THEN Absent ELSE Present(tracked)
     /\ user_ids_array =
          IF subs = {} THEN Absent ELSE Present(SelectSeq(ChatSeq, LAMBDA c : c \in chats))
     /\ user_states = <<>>
     /\ recent_notifications = <<>>
     /\ cron_lock = NoLock

\* the steps of an entry after its fetch
ProcessStep(t) ==
  \/ ItGetStored(t) \/ ItCacheSet(t) \/ ItGetSubscribers(t)
  \/ UmsSet(t) \/ UmsCache(t) \/ SnCheck(t) \/ SnRecord(t)

ItemStep(t) == ItFetch(t) \/ ProcessStep(t)

\* the steps of fetchModelStatus through the limiter
FetchStep(t) ==
  \/ CwlEnter(t) \/ CwlWake(t) \/ \E response \in Responses : FmsSettle(t, response)

CronStep(c) ==
  \/ CronInvoke(c) \/ CronAcquire(c) \/ CronReadQueue(c) \/ CronBatchDone(c)
  \/ CronRelease(c)

\* two invocations of the poll handler and the clock: entity a is tracked for
\* subscriber 1, recorded online a minute ago and now offline at the source
LeaseHorizon == 60000
InitLease ==
  /\ StoreWith({<<1, ModelA>>}) /\ Started
  /\ statuses = [m \in Models |->
                   IF m = ModelA
                   THEN Present(ModelStatus("online", StartTime - 60000, <<>>, 0))
                   ELSE Absent]
  /\ remote = [m \in Models |-> "offline"]
  /\ opsLeft = 0
  /\ cronLeft = MaxCron

NextLease ==
  \/ \E c \in Cycles : CronStep(c)
  \/ \E t \in ItemThreads : ItemStep(t) \/ SnSend(t, "ok")
  \/ \E d \in {25000, 30000} : Tick(d, StartTime + LeaseHorizon)

SpecLease == InitLease /\ [][NextLease]_vars

\* two invocations of the poll handler over an empty Queue or over entity a,
\* whose fetch never settles; a granted invocation may end without reaching its
\* finally block; the clock moves by the 5 seconds between the lease's expiry
\* and the next scheduled run, and by the lease's lifetime
CrashHorizon == 60000
InitCrash ==
  /\ \/ StoreWith({}) \/ StoreWith({<<1, ModelA>>})
  /\ Started
  /\ statuses = [m \in Models |-> Absent]
  /\ remote = [m \in Models |-> "offline"]
  /\ opsLeft = 0
  /\ cronLeft = 2

NextCrash ==
  \/ \E c \in Cycles :
       \/ CronInvoke(c) \/ CronAcquire(c) \/ CronReadQueue(c) \/ CronRelease(c)
       \/ CronCrash(c)
  \/ \E d \in {CRON_PERIOD_MS - LOCK_EXPIRE_MS, LOCK_EXPIRE_MS} :
       Tick(d, StartTime + CrashHorizon)

SpecCrash == InitCrash /\ [][NextCrash]_vars

\* subscriber 1 leaves entity a, its only subscription, while subscriber 2
\* subscribes to and leaves entity b, so that each Queue commit of the cleanup
\* may conflict; one invocation of the poll handler runs at any time
InitHeal ==
  /\ StoreWith({<<1, ModelA>>}) /\ Started
  /\ statuses = [m \in Models |-> Absent]
  /\ remote = [m \in Models |-> "offline"]
  /\ opsLeft = HealOps
  /\ cronLeft = 1

NextHeal ==
  \/ CallRemoveUserSubscription(P1, 1, ModelA)
  \/ CallAddUserSubscription(P2, 2, ModelB)
  \/ CallRemoveUserSubscription(P2, 2, ModelB)
  \/ \E t \in CmdThreads : RepoStep(t)
  \/ CronStep("c1")
  \/ \E t \in ItemThreads : ItFetch(t) \/ ItGetStored(t) \/ ItCacheSet(t)

SpecHeal == InitHeal /\ [][NextHeal]_vars /\ WF_vars(NextHeal)

\* consecutive invocations over entity a, tracked for subscriber 1 and not
\* yet recorded, while the source flips between offline and online and the
\* clock moves by a minute
InitFlicker ==
  /\ StoreWith({<<1, ModelA>>}) /\ Started
  /\ statuses = [m \in Models |-> Absent]
  /\ remote = [m \in Models |-> "offline"]
  /\ opsLeft = 0
  /\ cronLeft = FlickerCycles

NextFlicker ==
  \/ CronStep("c1")
  \/ \E t \in ItemThreads : ItemStep(t) \/ SnSend(t, "ok")
  \/ RemoteFlip(ModelA)
  \/ Tick(60000, StartTime + FlickerHorizon)

SpecFlicker == InitFlicker /\ [][NextFlicker]_vars

\* one command handler that registers subscriber 1, subscribes it to entity a
\* and unsubscribes it, in any order, against the empty store
InitRegistry ==
  /\ EmptyStore /\ Started
  /\ remote = [m \in Models |-> "offline"]
  /\ opsLeft = RegistryOps
  /\ cronLeft = 0

NextRegistry ==
  \/ CallAddUser(P1, 1)
  \/ CallAddUserSubscription(P1, 1, ModelA)
  \/ CallRemoveUserSubscription(P1, 1, ModelA)
  \/ AddUserStep(P1) \/ RepoStep(P1)

SpecRegistry == InitRegistry /\ [][NextRegistry]_vars

\* one invocation over entity a, tracked for subscriber 1, now offline at the
\* source and recorded online since one of several times before (or, by the
\* clock of another instance, just after) the start
DurationInputs ==
  {-1, 0, 59999, 60000, 3599999, 3600000, 5400000, 7200000, 86399999, 86400000,
   88200000, 90000000, 172800000}
InitDuration ==
  /\ StoreWith({<<1, ModelA>>}) /\ Started
  /\ \E ms \in DurationInputs :
       statuses = [m \in Models |->
                     IF m = ModelA
                     THEN Present(ModelStatus("online", StartTime - ms, <<>>, 0))
                     ELSE Absent]
  /\ remote = [m \in Models |-> "offline"]
  /\ opsLeft = 0
  /\ cronLeft = 1

NextDuration ==
  \/ CronStep("c1")
  \/ \E t \in ItemThreads : ItemStep(t) \/ SnSend(t, "ok")

SpecDuration == InitDuration /\ [][NextDuration]_vars

\* one invocation over an empty Queue or six tracked entities, with store
\* calls that may reject
SixModels == {AllModels[k] : k \in 1..6}
InitExit ==
  /\ \/ StoreWith({}) \/ StoreWith({1} \X SixModels)
  /\ Started
  /\ statuses = [m \in Models |-> Absent]
  /\ remote = [m \in Models |-> "offline"]
  /\ opsLeft = 0
  /\ cronLeft = 1

NextExit ==
  \/ CronStep("c1") \/ CronReadQueueThrows("c1")
  \/ \E t \in ItemThreads : ItFetch(t) \/ ItGetStored(t) \/ ItCacheSet(t) \/ ItThrow(t)

\* the event loop runs every continuation that is ready, and every store or
\* network call of the handler settles
SpecExit == InitExit /\ [][NextExit]_vars /\ WF_vars(NextExit)

\* consecutive invocations of the poll handler, one at a time, over entity a
\* with subscribers 1 and 2, while a goes on and off at the source, the clock
\* advances by minutes and the transport accepts or rejects a message
PollCycles == 4
PollHorizon == 300000
InitPoll ==
  /\ StoreWith(ChatIds \X {ModelA}) /\ Started
  /\ statuses = [m \in Models |-> Absent]
  /\ remote = [m \in Models |-> "offline"]
  /\ opsLeft = 0
  /\ cronLeft = PollCycles

NextPoll ==
  \/ CronStep("c1")
  \/ \E t \in ItemThreads : ItemStep(t) \/ ItThrow(t)
  \/ \E t \in ItemThreads, outcome \in {"ok", "error"} : SnSend(t, outcome)
  \/ RemoteFlip(ModelA)
  \/ Tick(60000, StartTime + PollHorizon)

SpecPoll == InitPoll /\ [][NextPoll]_vars

\* one invocation of the poll handler finds entity a, tracked for subscriber 1
\* alone, offline, and the transport may report that subscriber 1 blocked the
\* bot; meanwhile subscriber 2 subscribes to and unsubscribes from entity b
PurgeOps == 3
InitPurge ==
  /\ StoreWith({<<1, ModelA>>}) /\ Started
  /\ statuses = [m \in Models |->
                   IF m = ModelA
                   THEN Present(ModelStatus("online", StartTime - 60000, <<>>, 0))
                   ELSE Absent]
  /\ remote = [m \in Models |-> "offline"]
  /\ opsLeft = PurgeOps
  /\ cronLeft = 1

NextPurge ==
  \/ CronStep("c1")
  \/ \E t \in ItemThreads : ItemStep(t)
  \/ \E t \in ItemThreads, outcome \in {"ok", "blocked"} : SnSend(t, outcome)
  \/ \E t \in DOMAIN pc : RepoStep(t) \/ PurgeStep(t)
  \/ \E t \in CmdThreads, rawName \in RawNames \ {ModelA} :
        \/ CallAddUserSubscription(t, 2, rawName)
        \/ CallRemoveUserSubscription(t, 2, rawName)

SpecPurge == InitPurge /\ [][NextPurge]_vars

\* one invocation of the poll handler finds entities a and b, both tracked for
\* subscribers 1 and 2 and recorded online, offline; the transport accepts a
\* message, rejects it, or reports that the subscriber blocked the bot
InitFanout ==
  /\ StoreWith(ChatIds \X {ModelA, ModelB}) /\ Started
  /\ statuses = [m \in Models |->
                   IF m \in {ModelA, ModelB}
                   THEN Present(ModelStatus("online", StartTime - 60000, <<>>, 0))
                   ELSE Absent]
  /\ remote = [m \in Models |-> "offline"]
  /\ opsLeft = 0
  /\ cronLeft = 1

NextFanout ==
  \/ CronStep("c1")
  \/ \E t \in ItemThreads : ItemStep(t)
  \/ \E t \in ItemThreads, outcome \in {"ok", "error", "blocked"} : SnSend(t, outcome)
  \/ \E t \in DOMAIN it : RemoveStep(t) \/ PurgeStep(t)

SpecFanout == InitFanout /\ [][NextFanout]_vars

\* await sleep(index * 100): the entries of a batch start in index order; here
\* each entry has settled before the next one wakes up
IndexOf(m) == CHOOSE k \in 1..Len(AllModels) : AllModels[k] = m
InTurn(t) ==
  \A u \in ItemsOf(t[1]) : IndexOf(u[2]) < IndexOf(t[2]) => pc[u] = "it_done"

\* one invocation of the poll handler over eleven tracked entities, a batch of
\* ten and a batch of one, with store calls that may reject; the entity of
\* the second batch is recorded online and is offline at the source
LastModel == AllModels[Len(AllModels)]
InitBreaker ==
  /\ StoreWith({1} \X Models) /\ Started
  /\ statuses = [m \in Models |->
                   IF m = LastModel
                   THEN Present(ModelStatus("online", StartTime - 60000, <<>>, 0))
                   ELSE Absent]
  /\ remote = [m \in Models |-> "offline"]
  /\ opsLeft = 0
  /\ cronLeft = 1

NextBreaker ==
  \/ CronStep("c1") \/ CronNextBatch("c1")
  \/ \E t \in ItemThreads : InTurn(t) /\ (ItemStep(t) \/ ItThrow(t) \/ SnSend(t, "ok"))

SpecBreaker == InitBreaker /\ [][NextBreaker]_vars

\* the same invocation when no store call rejects
NextBatches ==
  \/ CronStep("c1") \/ CronNextBatch("c1")
  \/ \E t \in ItemThreads : InTurn(t) /\ (ItemStep(t) \/ SnSend(t, "ok"))

SpecBatches == InitBreaker /\ [][NextBatches]_vars

\* one invocation of the poll handler over MaxCalls tracked entities whose
\* entries run one after another: every call through the limiter is answered
\* 429 or with a body that says offline
CallModels == {AllModels[k] : k \in 1..MaxCalls}
InitBackoff ==
  /\ StoreWith({1} \X CallModels) /\ Started
  /\ statuses = [m \in Models |-> Absent]
  /\ remote = [m \in Models |-> "offline"]
  /\ opsLeft = 0
  /\ cronLeft = 1

NextBackoff ==
  \/ CronStep("c1")
  \/ \E t \in ItemThreads :
       InTurn(t) /\ (\/ CwlEnter(t) \/ CwlWake(t)
                     \/ \E response \in {"429", "offline"} : FmsSettle(t, response)
                     \/ ItGetStored(t) \/ ItCacheSet(t))
  \/ TimerTick(SleepTimers)

SpecBackoff == InitBackoff /\ [][NextBackoff]_vars

\* one invocation of the poll handler over GateSize entities tracked for
\* subscriber 1 and not yet recorded: the entries of the batch run
\* concurrently and the status source answers in every way
GateModels == {AllModels[k] : k \in 1..GateSize}
InitGate ==
  /\ StoreWith({1} \X GateModels) /\ Started
  /\ statuses = [m \in Models |-> Absent]
  /\ remote = [m \in Models |-> "offline"]
  /\ opsLeft = 0
  /\ cronLeft = 1

NextGate ==
  \/ CronStep("c1")
  \/ \E t \in ItemThreads :
       \/ FetchStep(t) \/ ItGetStored(t) \/ ItCacheSet(t) \/ ItGetSubscribers(t)
       \/ UmsSet(t) \/ UmsCache(t)
  \/ TimerTick(SleepTimers \cup AbortTimers)

SpecGate == InitGate /\ [][NextGate]_vars

\* one invocation of the poll handler while a command handler unsubscribes
\* subscriber 1, the only subscriber of entity a, and subscribes it again; a
\* is recorded online and is offline at the source
InitRace ==
  /\ StoreWith({<<1, ModelA>>}) /\ Started
  /\ statuses = [m \in Models |->
                   IF m = ModelA
                   THEN Present(ModelStatus("online", StartTime - 60000, <<>>, 0))
                   ELSE Absent]
  /\ remote = [m \in Models |-> "offline"]
  /\ opsLeft = RaceOps
  /\ cronLeft = 1

NextRace ==
  \/ CronStep("c1")
  \/ \E t \in ItemThreads : ItemStep(t) \/ SnSend(t, "ok")
  \/ CallRemoveUserSubscription(P1, 1, ModelA)
  \/ CallAddUserSubscription(P1, 1, ModelA)
  \/ RepoStep(P1)

SpecRace == InitRace /\ [][NextRace]_vars

\* the cleanup job while message handlers store conversation states for
\* subscribers 1 and 2, a day or a day and a minute pass, and one invocation
\* of the poll handler runs over entity a
CleanupHorizon == STATE_EXPIRE_MS + 60000
InitCleanup ==
  /\ StoreWith({<<1, ModelA>>}) /\ Started
  /\ statuses = [m \in Models |-> Absent]
  /\ remote = [m \in Models |-> "offline"]
  /\ opsLeft = CleanupOps
  /\ cronLeft = 1

NextCleanup ==
  \/ \E chatId \in ChatIds : SetUserState(chatId)
  \/ CleanupInvoke \/ CleanupList \/ CleanupEntry
  \/ \E d \in {STATE_EXPIRE_MS, CleanupHorizon} : Tick(d, StartTime + CleanupHorizon)
  \/ CronStep("c1")
  \/ \E t \in ItemThreads : ItFetch(t) \/ ItGetStored(t) \/ ItCacheSet(t)

SpecCleanup == InitCleanup /\ [][NextCleanup]_vars

\* one invocation of the poll handler finds entity a, tracked for FanoutSize
\* subscribers and recorded online, offline; the transport accepts or rejects
\* each message
InitCap ==
  /\ StoreWith((1..FanoutSize) \X {ModelA}) /\ Started
  /\ statuses = [m \in Models |->
                   IF m = ModelA
                   THEN Present(ModelStatus("online", StartTime - 60000, <<>>, 0))
                   ELSE Absent]
  /\ remote = [m \in Models |-> "offline"]
  /\ opsLeft = 0
  /\ cronLeft = 1

NextCap ==
  \/ CronStep("c1")
  \/ \E t \in ItemThreads : ItemStep(t)
  \/ \E t \in ItemThreads, outcome \in {"ok", "error"} : SnSend(t, outcome)

SpecCap == InitCap /\ [][NextCap]_vars

\* ------------------------------------------------------------------ claims
Quiescent == \A t \in DOMAIN pc : pc[t] = "idle"

\* C1: once every subscribe/unsubscribe has completed, an entity is in the
\* Queue if and only if it has at least one subscriber
C1_QueueIffSubscribed ==
  Quiescent =>
    \A m \in Models : Includes(getModelQueue, m) <=> Len(getModelSubscribers(m)) > 0

\* C2: the unsubscribe of a last subscriber never takes the entity out of the
\* Queue (deleting its subscriber list) while a different subscriber is in
\* the entity's subscriber list
C2_NoRemovalWhileSubscribed ==
  [][\A t \in DOMAIN pc :
       (/\ pc[t] = "rmq_commit" /\ t \in DOMAIN pc' /\ pc'[t] # "rmq_commit"
        /\ Includes(models_queue.val, loc[t].model)
        /\ ~Includes(models_queue'.val, loc[t].model))
       => \A c \in ChatIds \ {loc[t].chatId} :
             ~Includes(model_subscribers[loc[t].model].val, c)]_vars

Running(c) == cyc[c].pc \in {"read_queue", "batch", "pause", "release"}

\* C3: at every moment at most one poll cycle is between being granted the
\* lease and releasing it
C3_AtMostOneRunning == Cardinality({c \in Cycles : Running(c)}) <= 1

\* C4: an acquisition attempt succeeds exactly when the lease key is absent and
\* then holds the key, so the second of two attempts is denied; a denied
\* invocation ends without reading the Queue, fetching, writing, dispatching
\* or deleting the lease key
C4_OneLeaseHolder ==
  /\ [][\A c \in Cycles :
          (cyc[c].pc = "acquire" /\ cyc'[c].pc # "acquire")
          => /\ cyc'[c].granted <=> ~cron_lock.has
             /\ cyc'[c].granted => cyc'[c].pc = "read_queue" /\ cron_lock'.has
             /\ ~cyc'[c].granted => cyc'[c].pc = "done" /\ cron_lock' = cron_lock]_vars
  /\ [](\A c \in Cycles :
          ~cyc[c].granted => ~cyc[c].acted /\ ~cyc[c].released /\ ItemsOf(c) = {})
C4_Witness ==
  \E c, d \in Cycles :
     /\ cyc[c].granted /\ Running(c)
     /\ cyc[d].pc = "done" /\ ~cyc[d].granted /\ cyc[d].startTime = cyc[c].startTime

Count(s, x) == Cardinality({i \in DOMAIN s : s[i] = x})
InSubscribe(t) ==
  pc[t] \in {"aus_user", "aus_sub", "asm_get", "asm_commit", "aus_qget", "aus_qcommit"}
SubscribedIn(u, s, ms, q, c, m) ==
  /\ c \in u /\ <<c, m>> \in s
  /\ Count(ms[m].val, c) = 1
  /\ Count(q.val, m) = 1
Subscribed(c, m) ==
  SubscribedIn(users, subscriptions, model_subscribers, models_queue, c, m)

\* C11: a subscribe that returns leaves one subscription key, the subscriber
\* once in the entity's list and the entity once in the Queue; a subscribe
\* that starts from that state changes nothing in the store
C11_SubscribeIdempotent ==
  [][\A t \in CmdThreads :
       InSubscribe(t)
       => /\ pc'[t] = "idle"
             => SubscribedIn(users', subscriptions', model_subscribers', models_queue',
                             loc[t].chatId, loc[t].model)
          /\ Subscribed(loc[t].chatId, loc[t].model) => kvVars' = kvVars]_vars
C11_Witness ==
  \E t \in CmdThreads :
     /\ pc[t] = "aus_user" /\ Subscribed(loc[t].chatId, loc[t].model)
     /\ Len(model_subscribers[loc[t].model].val) = 2

\* C12: no entity is in the Queue twice
C12_QueueUnique == \A m \in Models : Count(models_queue.val, m) <= 1
C12_Witness ==
  \E t \in CmdThreads :
     /\ pc[t] = "aus_qcommit" /\ loc[t].stale
     /\ Includes(models_queue.val, loc[t].model)

\* C20: a subscribe that gives up adding the subscriber to the entity's list
\* (its compare-and-set retries are used up) does not leave the subscription
\* key written with the subscriber missing from the list
C20_NoPartialSubscribe ==
  [][\A t \in CmdThreads :
       (/\ pc[t] = "asm_commit" /\ pc'[t] = "aus_qget"
        /\ model_subscribers' = model_subscribers)
       => ~(/\ <<loc[t].chatId, loc[t].model>> \in subscriptions'
            /\ ~Includes(model_subscribers'[loc[t].model].val, loc[t].chatId))]_vars

AtEnd(t) == pc[t] = "it_done" /\ ~it[t].thrown
WentOnline(t) ==
  /\ it[t].currentStatus = "online"
  /\ ~it[t].stored.has \/ it[t].stored.val.status = "offline"
StayedOnline(t) ==
  /\ it[t].currentStatus = "online"
  /\ it[t].stored.has /\ it[t].stored.val.status = "online"
WentOffline(t) ==
  /\ it[t].currentStatus = "offline"
  /\ it[t].stored.has /\ it[t].stored.val.status = "online"

\* C6: a cycle that fetches an entity as online, finds it recorded online and
\* starts at least the grace period after the recorded online_since sends an
\* online notification to every subscriber not yet in notified_users
C6_NotifiedAfterGrace ==
  \A t \in DOMAIN it :
     (/\ AtEnd(t) /\ StayedOnline(t)
      /\ cyc[t[1]].startTime - it[t].stored.val.online_since >= GRACE_PERIOD_MS)
     => \A c \in ChatIds :
           (/\ Includes(getModelSubscribers(t[2]), c)
            /\ ~Includes(it[t].stored.val.notified_users, c))
           => Includes(it[t].tried, c)

\* C7: an entity recorded offline, or not recorded, that is fetched as online
\* gets the record (online, online_since = the time of the processing, no
\* notified users), and nobody is notified in that cycle
C7_OnlineStartsGrace ==
  \A t \in DOMAIN it :
     AtEnd(t) /\ WentOnline(t)
     => /\ it[t].wrote = <<ModelStatus("online", it[t].now, <<>>, 0)>>
        /\ statuses[t[2]] = Present(ModelStatus("online", it[t].now, <<>>, 0))
        /\ cyc[t[1]].startTime <= it[t].now /\ it[t].now <= now
        /\ it[t].tried = <<>> /\ it[t].skipped = <<>>
C7_Witness ==
  \E t \in DOMAIN it :
     /\ AtEnd(t) /\ WentOnline(t) /\ it[t].stored.has /\ it[t].wrote # <<>>
     /\ it[t].now > StartTime

C10_PurgedEverywhere ==
  [][\A t \in DOMAIN it :
       (pc[t] = "ras_state" /\ pc'[t] # "ras_state")
       => LET c == loc[t].chatId IN
            /\ \A m \in Models : <<c, m>> \notin subscriptions'
            /\ \A m \in Models : ~Includes(model_subscribers'[m].val, c)
            /\ c \notin users' /\ ~Includes(user_ids_array'.val, c)
            /\ \A m \in Elems(loc[t].userSubscriptions) :
                  (\A d \in ChatIds \ {c} :
                      /\ <<d, m>> \notin subscriptions'
                      /\ ~Includes(model_subscribers'[m].val, d))
                  => ~Includes(models_queue'.val, m)]_vars

\* C16: an entry whose fetch result is unknown ends there: the fetch step
\* leaves the store, the status cache and the counters of the cycle as they
\* are, the entry writes no status, tries and skips no send, and it takes no
\* further step (so it is not fetched again) until the batch is over
C16_UnknownSkipped ==
  /\ [][\A t \in DOMAIN it :
          (pc[t] = "it_fetch" /\ it'[t].currentStatus = "unknown")
          => /\ pc'[t] = "it_done"
             /\ kvVars' = kvVars /\ statusCache' = statusCache
             /\ lastDispatch' = lastDispatch
             /\ cyc'[t[1]].processedCount = cyc[t[1]].processedCount
             /\ cyc'[t[1]].errorCount = cyc[t[1]].errorCount]_vars
  /\ [](\A t \in DOMAIN it :
          it[t].currentStatus = "unknown"
          => /\ pc[t] = "it_done" /\ ~it[t].thrown
             /\ it[t].wrote = <<>> /\ it[t].tried = <<>> /\ it[t].skipped = <<>>)
  /\ [][\A t \in DOMAIN it :
          pc[t] = "it_done"
          => t \notin DOMAIN it' \/ (pc'[t] = "it_done" /\ it'[t] = it[t])]_vars
C16_Witness ==
  \E t \in DOMAIN it :
     /\ it[t].currentStatus = "unknown" /\ pc[t] = "it_done"
     /\ statuses[t[2]].has /\ statuses[t[2]].val.status = "online"
     /\ remote[t[2]] = "offline"

C9_OneDispatchPerWindow ==
  [][\A t \in DOMAIN it :
       (pc[t] = "sn_send" /\ pc'[t] = "sn_record")
       => LET key == NotificationKey(Head(it[t].userIds), t[2], it[t].ntype) IN
            key \in DOMAIN lastDispatch => now - lastDispatch[key] >= DEDUP_WINDOW_MS]_vars

\* C19: a fan-out whose failed sends are separated by successes, so that no
\* run of consecutive failures is longer than 10, attempts every subscriber
\* (each one is sent to, or skipped as recently notified)
FailedAt(i, k) == ~Includes(i.sentTo, i.tried[k])
HasFailureRun(i, n) ==
  \E k \in 1..(Len(i.tried) - n + 1) : \A j \in k..(k + n - 1) : FailedAt(i, j)
C19_CapCountsConsecutive ==
  \A t \in DOMAIN it :
    (AtEnd(t) /\ WentOffline(t) /\ ~HasFailureRun(it[t], MAX_NOTIFICATION_ERRORS + 1))
      => \A c \in 1..FanoutSize :
           Includes(it[t].tried, c) \/ Includes(it[t].skipped, c)

\* C17: once the error count of a cycle exceeds 5 no later batch is started
\* (the batch index stays, no entry appears, the status record and the cache
\* entry of every entity of a later batch stay as they are); an entry that
\* failed takes no further step and an entity gets at most one entry per
\* cycle; a cycle that ends over the threshold ends by the breaker, with the
\* lease released
InLaterBatch(c, m) ==
  /\ Includes(cyc[c].queue, m)
  /\ PositionIn(cyc[c].queue, m) > (cyc[c].batchIndex + 1) * BATCH_SIZE
BreakerHolds(c) ==
  cyc[c].errorCount > MAX_CYCLE_ERRORS
    => /\ cyc'[c].batchIndex = cyc[c].batchIndex
       /\ \A t \in DOMAIN it' : t[1] = c => t \in DOMAIN it
       /\ \A m \in Models :
            InLaterBatch(c, m) => /\ statuses'[m] = statuses[m]
                                  /\ statusCache'[m] = statusCache[m]
NoRetry(c) ==
  /\ \A t \in ItemsOf(c) :
       (it[t].thrown /\ t \in DOMAIN it') => (it'[t] = it[t] /\ pc'[t] = pc[t])
  /\ \A t \in DOMAIN it' \ DOMAIN it :
       t[1] = c => /\ cyc[c].pc = "read_queue" \/ cyc'[c].batchIndex = cyc[c].batchIndex + 1
                   /\ PositionIn(cyc'[c].queue, t[2]) > cyc'[c].batchIndex * BATCH_SIZE
DelayAfterFailures(n) == Min(INITIAL_BACKOFF_MS * 2^n, MAX_BACKOFF_MS)
CallStarts(t) ==
  /\ t \in DOMAIN it' /\ pc'[t] = "cwl_call"
  /\ t \in DOMAIN it => pc[t] # "cwl_call"
OnlyFailures == rateLimiter.settled = rateLimiter.failed
C14_SharedGate ==
  [][\A t \in ItemThreads :
       CallStarts(t)
         => /\ \A u \in DOMAIN it : u # t => pc[u] # "cwl_call"
            /\ \/ now - rateLimiter.lastCall > MAX_BACKOFF_MS
               \/ (now - rateLimiter.lastCall) * Scale >= rateLimiter.backoffMs]_vars

\* C15: a fetch never raises, and its result is offline for 404, unknown for
\* 429, another non-success status, a timeout, a transport failure and a body
\* that is not JSON, offline for a body whose room_status is "offline" and
\* online for any other body
Fetched(t) == it[t].response # "none"
ClaimedStatus(response) ==
  IF response = "404" THEN "offline"
  ELSE IF response \in {"429", "500", "timeout", "network", "badjson"} THEN "unknown"
  ELSE IF response = "offline" THEN "offline" ELSE "online"
C15_FetchTotal ==
  \A t \in DOMAIN it :
    Fetched(t) => /\ ~it[t].thrown
                  /\ it[t].currentStatus = ClaimedStatus(it[t].response)
\* C15, amended: as above, and a body that is the JSON null gives unknown
C15_FetchTotalNullUnknown ==
  \A t \in DOMAIN it :
    Fetched(t) => /\ ~it[t].thrown
                  /\ it[t].currentStatus =
                       IF it[t].response = "null" THEN "unknown"
                       ELSE ClaimedStatus(it[t].response)
C15_Witness ==
  \E t, u \in DOMAIN it :
    /\ it[t].response = "null" /\ it[t].currentStatus = "unknown"
    /\ it[u].response = "timeout" /\ it[u].currentStatus = "unknown"

\* C21: a subscribe makes at most 5 compare-and-set attempts on the Queue;
\* when the fifth conflicts too it returns to its caller, with the
\* subscription key written and the Queue as it was; and every subscribe
\* returns
C21_SubscribeGivesUp ==
  /\ [](\A t \in CmdThreads : pc[t] = "aus_qcommit" => loc[t].attempts < 5)
  /\ [][\A t \in CmdThreads :
          (pc[t] = "aus_qcommit" /\ loc[t].attempts = 4 /\ pc'[t] # pc[t])
            => /\ pc'[t] = "idle"
               /\ <<loc[t].chatId, loc[t].model>> \in subscriptions'
               /\ (~Includes(models_queue'.val, loc[t].model)
                     => models_queue' = models_queue)]_vars
  /\ \A t \in CmdThreads : InSubscribe(t) ~> pc[t] = "idle"
C21_Witness ==
  /\ pc[P1] = "aus_qcommit" /\ loc[P1].attempts = 4 /\ loc[P1].stale
  /\ <<1, ModelA>> \in subscriptions
  /\ ~Includes(models_queue.val, ModelA)

\* C22: a subscribe or unsubscribe called with a raw name that is made of
\* '<', '>' and blanks only returns at once and changes nothing that is
\* persisted (nor the status cache)
NormalizesToEmpty(rawName) == \A k \in 1..Len(rawName) : rawName[k] \in {"<", ">", " "}
IsCalled(t) == pc[t] = "idle" /\ opsLeft' < opsLeft /\ loc'[t] # loc[t]
C22_EmptyNameNoOp ==
  /\ [][\A t \in CmdThreads :
          (IsCalled(t) /\ NormalizesToEmpty(loc'[t].rawName))
            => /\ pc'[t] = "idle"
               /\ kvVars' = kvVars /\ statusCache' = statusCache]_vars
  /\ [](\A t \in CmdThreads : pc[t] # "idle" => ~NormalizesToEmpty(loc[t].rawName))
C22_Witness ==
  /\ pc[P1] = "idle" /\ loc[P1].rawName = <<" ", ">">>
  /\ subscriptions = {<<1, ModelA>>}

\* C23: no status record exists for an entity that is not in the Queue
C23_NoStatusOutsideQueue ==
  \A m \in Models : ~Includes(models_queue.val, m) => ~statuses[m].has

\* C26: the status cache holds no entry for an entity that is not in the Queue
C26_NoCacheOutsideQueue ==
  \A m \in Models : ~Includes(models_queue.val, m) => ~statusCache[m].has

\* C24: in every persisted status record online_since is set (not null) if and
\* only if the status is online
C24_SinceIffOnline ==
  \A m \in Models :
    statuses[m].has => (statuses[m].val.online_since # 0 <=> statuses[m].val.status = "online")
C24_Witness ==
  \E t \in DOMAIN it :
    /\ AtEnd(t) /\ WentOffline(t) /\ it[t].wrote # <<>>
    /\ it[t].stored.val.online_since # 0
    /\ statuses[t[2]].has /\ statuses[t[2]].val.status = "offline"
    /\ statuses[t[2]].val.online_since = 0

\* C25: a get on the status cache that finds an entry returns its status and
\* keeps the entry when the entry is less than 30 seconds old; when it is 30
\* seconds old or older the get removes the entry and reports a miss
CacheGet(t) ==
  /\ t \in DOMAIN it /\ pc[t] = "it_stored"
  /\ t \in DOMAIN it' /\ pc'[t] # "it_stored" /\ ~it'[t].thrown
  /\ statusCache[t[2]].has
C25_CacheTTL ==
  [][\A t \in ItemThreads :
       CacheGet(t)
         => LET entry == statusCache[t[2]] IN
              IF now - entry.timestamp < CACHE_TTL_MS
              THEN /\ it'[t].stored = Present(entry.val)
                   /\ statusCache' = statusCache
              ELSE /\ statusCache'[t[2]] = NoCache
                   /\ pc'[t] = "it_cacheset"]_vars

\* C27: a step of the cleanup job deletes only conversation-state records
\* whose expiry time is earlier than the time of the sweep and changes no
\* other record nor any other key; when the sweep ends no record with an
\* earlier expiry time is left
CleanupActs ==
  /\ CleanupThread \in DOMAIN pc /\ pc[CleanupThread] = "cl_entry"
  /\ CleanupThread \in DOMAIN pc' => loc'[CleanupThread] # loc[CleanupThread]
SweepTime == loc[CleanupThread].now
C27_CleanupExact ==
  [][CleanupActs
       => /\ \A c \in DOMAIN user_states :
               IF c \in DOMAIN user_states'
               THEN user_states'[c] = user_states[c]
               ELSE user_states[c] < SweepTime
          /\ DOMAIN user_states' \subseteq DOMAIN user_states
          /\ UNCHANGED <<users, subscriptions, model_subscribers, models_queue,
                         user_ids_array, statuses, recent_notifications, cron_lock>>
          /\ CleanupThread \notin DOMAIN pc'
               => \A c \in DOMAIN user_states' : user_states'[c] >= SweepTime]_vars

\* C28: within one batch entry the stored status is read before the
\* transition is decided (the decision compares the fetched status with the
\* status that was read), and the new status record is written before any
\* notification of the transition is handed to the transport
InProcessStatusChange(t) ==
  pc[t] \in {"psc_subs", "ums_set", "ums_cache", "sn_check", "sn_send", "sn_record"}
InSendNotifications(t) == pc[t] \in {"sn_check", "sn_send", "sn_record"}
C28_ReadDecideWriteNotify ==
  \A t \in DOMAIN it :
    /\ InProcessStatusChange(t) => it[t].prev # "none"
    /\ it[t].prev # "none"
         => /\ it[t].prev = IF it[t].stored.has THEN it[t].stored.val.status
                                                ELSE "offline"
            /\ InProcessStatusChange(t) => it[t].prev # it[t].currentStatus
    /\ InSendNotifications(t) \/ it[t].tried # <<>>
         => /\ it[t].wrote # <<>>
            /\ it[t].wrote[1].status = it[t].currentStatus
C28_Witness ==
  \E t \in DOMAIN it :
    /\ it[t].prev = "online" /\ it[t].currentStatus = "offline"
    /\ it[t].sentTo # <<>> /\ it[t].wrote # <<>>

\* C29: when an invocation was granted the lease (its commit landing before
\* the lease's lifetime plus the delay exceed the schedule's period) and has
\* not released it, the lease key is absent when the invocation scheduled 60
\* seconds after it attempts the acquisition, and that invocation is granted
HoldsUnreleased(c) ==
  /\ cyc[c].granted /\ ~cyc[c].released
  /\ cyc[c].grantedAt + LOCK_EXPIRE_MS <= cyc[c].startTime + CRON_PERIOD_MS
NextScheduled(c, n) ==
  /\ n # c /\ cyc[n].pc # "idle"
  /\ cyc[n].startTime = cyc[c].startTime + CRON_PERIOD_MS
Abandoned(m) ==
  /\ Includes(models_queue.val, m)
  /\ model_subscribers[m] = Present(<<>>)
  /\ \A t \in CmdThreads : pc[t] = "idle"
C30_PollSelfHeals ==
  \A m \in Models :
    (Abandoned(m) /\ cronLeft > 0) ~> ~Includes(models_queue.val, m)

\* C31: a message of type online is handed to the transport for an entity
\* only when the entity is recorded online with an online_since at least the
\* grace period in the past; an entity that returns offline within the grace
\* period has caused no online notification
HandsToTransport(t) ==
  /\ pc[t] = "sn_send" /\ t \in DOMAIN it'
  /\ it'[t].tried # it[t].tried
OnlineDispatched(m) ==
  \E k \in DOMAIN lastDispatch : k[2] = m /\ k[3] = "online"
C31_OnlineOnlyAfterGrace ==
  [][\A t \in DOMAIN it :
       /\ HandsToTransport(t) /\ it[t].ntype = "online"
            => /\ statuses[t[2]].has /\ statuses[t[2]].val.status = "online"
               /\ now - statuses[t[2]].val.online_since >= GRACE_PERIOD_MS
       /\ (/\ WentOffline(t)
           /\ it[t].now - it[t].stored.val.online_since < GRACE_PERIOD_MS)
            => \A k \in DOMAIN lastDispatch :
                  k[2] = t[2] /\ k[3] = "online"
                  => lastDispatch[k] < it[t].stored.val.online_since]_vars
C31_Witness ==
  \E t \in DOMAIN it :
    /\ AtEnd(t) /\ WentOffline(t) /\ it[t].sentTo # <<>>
    /\ it[t].now - it[t].stored.val.online_since < GRACE_PERIOD_MS
    /\ ~OnlineDispatched(t[2])

\* C32: when no repository operation is in progress, every subscriber that
\* holds at least one subscription is in the list returned by getAllUserIds
C32_SubscribersRegistered ==
  (\A t \in CmdThreads : pc[t] = "idle")
    => \A chatId \in ChatIds :
         getUserSubscriptions(chatId) # <<>> => Includes(getAllUserIds, chatId)

\* C33: when a fetch returns, the limiter's delay has doubled (capped at
\* 30000 ms) if the fetch returned unknown, and has lost a tenth (floored at
\* 1000 ms) if it returned online or offline
FetchReturns(t) ==
  /\ pc[t] = "cwl_call" /\ t \in DOMAIN it' /\ pc'[t] # "cwl_call"
C33_UnknownDoublesBackoff ==
  [][\A t \in DOMAIN it :
       FetchReturns(t)
         => rateLimiter'.backoffMs =
              IF it'[t].currentStatus = "unknown"
              THEN Min(MAX_BACKOFF_MS * Scale, 2 * rateLimiter.backoffMs)
              ELSE Max(MIN_BACKOFF_MS * Scale,
                       rateLimiter.backoffMs - rateLimiter.backoffMs \div 10)]_vars

\* C34: the limiter's delay is at least 1000 ms and at most 30000 ms
C34_BackoffBounded ==
  /\ MIN_BACKOFF_MS * Scale <= rateLimiter.backoffMs
  /\ rateLimiter.backoffMs <= MAX_BACKOFF_MS * Scale
C34_Witness ==
  /\ rateLimiter.backoffMs = MAX_BACKOFF_MS * Scale
  /\ rateLimiter.failed > 5 /\ rateLimiter.settled = rateLimiter.failed

\* C35: the entries of a cycle are those of one batch, the batches are the
\* consecutive slices of at most 10 entities of the Queue snapshot, a fetch
\* happens only after every entity of the earlier batches was fetched and its
\* entry has ended, and a cycle that completes has fetched every entity of
\* the snapshot exactly once
BatchNo(c, m) == (PositionIn(cyc[c].queue, m) - 1) \div BATCH_SIZE
Fetches(t) ==
  cyc'[t[1]].fetched[t[2]] = cyc[t[1]].fetched[t[2]] + 1
C35_BatchesInOrder ==
  /\ [](\A t \in DOMAIN it :
          /\ Includes(cyc[t[1]].queue, t[2])
          /\ BatchNo(t[1], t[2]) = cyc[t[1]].batchIndex)
  /\ [][\A t \in DOMAIN it :
          Fetches(t)
            => \A m \in Models :
                 (Includes(cyc[t[1]].queue, m) /\ BatchNo(t[1], m) < BatchNo(t[1], t[2]))
                   => /\ cyc[t[1]].fetched[m] = 1
                      /\ <<t[1], m>> \notin DOMAIN it]_vars
  /\ [](\A c \in Cycles :
          (cyc[c].pc = "done" /\ cyc[c].exit = "completed")
            => \A m \in Models :
                 cyc[c].fetched[m] = IF Includes(cyc[c].queue, m) THEN 1 ELSE 0)
C35_Witness ==
  /\ cyc["c1"].pc = "done" /\ cyc["c1"].exit = "completed"
  /\ Len(cyc["c1"].queue) > BATCH_SIZE /\ cyc["c1"].batchIndex = 1
  /\ cyc["c1"].fetched[LastModel] = 1

\* C36: when the entry of a tracked entity has ended with a fetched status
\* of online or offline, a status record of the entity exists
C36_RecordAfterFirstStatus ==
  \A t \in DOMAIN it :
    (AtEnd(t) /\ it[t].currentStatus \in {"online", "offline"})
      => statuses[t[2]].has

\* C37: the release step of a cycle deletes the lease key only when the key
\* holds the lease that this cycle acquired
C37_ReleasesOwnLease ==
  [][\A c \in Cycles :
       (cyc[c].pc = "release" /\ cyc'[c].pc = "done" /\ cron_lock.has)
         => cron_lock.owner = c]_vars

\* C38: when no repository operation is in progress the two subscription
\* indexes agree: entity m is in the subscriptions of subscriber c if and
\* only if c is in the subscriber list of m
C38_IndexesAgree ==
  Quiescent =>
    \A c \in ChatIds, m \in Models :
      Includes(getUserSubscriptions(c), m) <=> Includes(getModelSubscribers(m), c)

\* C39: a dedup record for (subscriber, entity, type) is written only by the
\* entry whose send of that message to that subscriber the transport has
\* accepted; a send that fails writes no record, and none is written for it
\* afterwards
Written(k) ==
  /\ k \in DOMAIN recent_notifications'
  /\ k \in DOMAIN recent_notifications => recent_notifications'[k] # recent_notifications[k]
SendFails(t) ==
  /\ pc[t] = "sn_send" /\ t \in DOMAIN it'
  /\ it'[t].tried # it[t].tried /\ it'[t].sentTo = it[t].sentTo
C39_RecordOnlyAfterSend ==
  /\ [][\A c \in 1..FanoutSize, m \in Models, type \in {"online", "offline"} :
          Written(NotificationKey(c, m, type))
            => \E t \in DOMAIN it :
                  /\ t[2] = m /\ it[t].ntype = type /\ pc[t] = "sn_record"
                  /\ it[t].sentTo # <<>> /\ it[t].sentTo[Len(it[t].sentTo)] = c
                  /\ it[t].tried[Len(it[t].tried)] = c]_vars
  /\ [][\A t \in DOMAIN it :
          SendFails(t) => /\ recent_notifications' = recent_notifications
                          /\ pc'[t] # "sn_record"]_vars
C39_Witness ==
  \E t \in DOMAIN it : \E c, d \in ChatIds :
    /\ Includes(it[t].tried, c) /\ ~Includes(it[t].sentTo, c)
    /\ NotificationKey(c, t[2], it[t].ntype) \notin DOMAIN recent_notifications
    /\ Includes(it[t].sentTo, d)
    /\ NotificationKey(d, t[2], it[t].ntype) \in DOMAIN recent_notifications

\* C40: the duration in an offline message is rendered from the whole
\* minutes m of the time since online_since: below an hour "<m> minutes";
\* below a day "<h>hr <r>m", without the minutes when r = 0; from a day on
\* "<d>d <h>hrs", without the hours when h = 0; "0 minutes" when negative
Rendered(ms) ==
  LET m == ms \div 60000 IN
    IF ms < 0 THEN "0 minutes"
    ELSE IF m < 60 THEN ToString(m) \o " minutes"
    ELSE IF m < 1440
    THEN LET h == m \div 60
             r == m - 60 * h
         IN ToString(h) \o "hr" \o (IF r = 0 THEN "" ELSE " " \o ToString(r) \o "m")
    ELSE LET d == m \div 1440
             h == (m - 1440 * d) \div 60
         IN ToString(d) \o "d" \o (IF h = 0 THEN "" ELSE " " \o ToString(h) \o "hrs")
C40_DurationRendered ==
  \A t \in DOMAIN it :
    (WentOffline(t) /\ it[t].subscribers # <<>>)
      => it[t].durationText =
           " (Online for " \o Rendered(it[t].now - it[t].stored.val.online_since) \o ")"
C40_Witness ==
  \E t \in DOMAIN it :
    /\ WentOffline(t) /\ it[t].sentTo # <<>>
    /\ it[t].now - it[t].stored.val.online_since = 5400000
    /\ it[t].durationText = " (Online for 1hr 30m)"

====
